---------------------------- MODULE Spec2Model ----------------------------
(***************************************************************************)
(* A model of the Wyvern lazification pass: the program slicer and thunk   *)
(* outliner (passes/ProgramSlice.cpp) and the call-site rewriter           *)
(* (passes/Lazyfication.cpp).                                              *)
(*                                                                         *)
(* The IR is modelled structurally.  A caller is a record                  *)
(*   [name, na, nb, cs, insts]                                             *)
(* with na formal parameters, blocks 1..nb (block 1 is the entry), the     *)
(* candidate call cs and the instructions in program order; the blocks are *)
(* numbered in function order.  An instruction is a record                 *)
(*   [k, b, ops, tgt, fn]                                                  *)
(* k the opcode, b the parent block, ops the value operands, tgt the block *)
(* operands (successors of a terminator, incoming blocks of a PHI) and fn  *)
(* the called function of a call.  A value is <<"i", n>> (instruction n of *)
(* the caller), <<"a", n>> (formal parameter n) or <<"c", n>> (constant).  *)
(***************************************************************************)
EXTENDS Integers, Sequences, FiniteSets, TLC

(***************************************************************************)
(* Bounds of the model.                                                    *)
(***************************************************************************)
\* the candidate list handed to runOnModule holds at most MaxCands sites
MaxCands == 2
\* caller parameters and uninitialised memory range over 0..MaxVal
MaxVal == 2
\* forcing calls executed on one thunk record
MaxForces == 3
\* instructions one execution of a procedure may run before it is cut off
MaxSteps == 48

Vals == 0..MaxVal

(***************************************************************************)
(* Values and instructions.                                                *)
(***************************************************************************)
vI(n) == <<"i", n>>
vA(n) == <<"a", n>>
vC(n) == <<"c", n>>

Ins(k, b, ops, tgt) == [k |-> k, b |-> b, ops |-> ops, tgt |-> tgt, fn |-> "none"]
CallI(b, fn, ops) == [k |-> "call", b |-> b, ops |-> ops, tgt |-> <<>>, fn |-> fn]

isTerminator(k) == k \in {"br", "condbr", "switch", "ret", "unreachable"}
isInstruction(v) == v[1] = "i"
isArgument(v) == v[1] = "a"

Range(s) == {s[i] : i \in DOMAIN s}

RECURSIVE SetToSeq(_)
SetToSeq(S) ==
  IF S = {} THEN <<>>
  ELSE LET m == CHOOSE x \in S : \A y \in S : x <= y
       IN <<m>> \o SetToSeq(S \ {m})

\* the first index of s holding x, 0 when there is none
IndexOf(s, x) ==
  IF \E i \in DOMAIN s : s[i] = x
  THEN CHOOSE i \in DOMAIN s : s[i] = x /\ \A j \in 1..(i - 1) : s[j] # x
  ELSE 0

\* Body applied to the value of v: v is evaluated once, to a value whose
\* functions are tabulated, before Body is
Val(v) == {y \in {v} : y = y}

Only(S) == CHOOSE r \in S : TRUE

\* the table f, its entries computed when it is defined and not again at
\* each lookup
Tabulated(f) == CHOOSE t \in {f} : t = t

SelectIdx(s, T(_)) == SetToSeq({i \in DOMAIN s : T(s[i])})

(***************************************************************************)
(* The callers the pass is run on.                                         *)
(***************************************************************************)

\* x = a*b + 1 passed to a callee: straight-line code
PStraight ==
  [name |-> "straight", na |-> 2, nb |-> 1, cs |-> 3,
   insts |-> << Ins("add", 1, <<vA(1), vA(2)>>, <<>>),
               Ins("add", 1, <<vI(1), vC(1)>>, <<>>),
               CallI(1, "g2", <<vI(2)>>),
               Ins("ret", 1, <<>>, <<>>) >>]

\* x = cond ? a+1 : a+2 : a diamond merged by a PHI
PDiamond ==
  [name |-> "diamond", na |-> 2, nb |-> 4, cs |-> 7,
   insts |-> << Ins("condbr", 1, <<vA(1)>>, <<2, 3>>),
               Ins("add", 2, <<vA(2), vC(1)>>, <<>>),
               Ins("br", 2, <<>>, <<4>>),
               Ins("add", 3, <<vA(2), vC(2)>>, <<>>),
               Ins("br", 3, <<>>, <<4>>),
               Ins("phi", 4, <<vI(2), vI(4)>>, <<2, 3>>),
               CallI(4, "g2", <<vI(6)>>),
               Ins("ret", 4, <<>>, <<>>) >>]

\* a branch whose direct arm and whose nested diamond meet in one PHI
PBypass ==
  [name |-> "bypass", na |-> 2, nb |-> 5, cs |-> 6,
   insts |-> << Ins("condbr", 1, <<vA(1)>>, <<2, 5>>),
               Ins("condbr", 2, <<vA(2)>>, <<3, 4>>),
               Ins("br", 3, <<>>, <<5>>),
               Ins("br", 4, <<>>, <<5>>),
               Ins("phi", 5, <<vC(0), vC(1), vC(2)>>, <<1, 3, 4>>),
               CallI(5, "g1", <<vI(5)>>),
               Ins("ret", 5, <<>>, <<>>) >>]

\* do { n = i + 1 } while (n < a); the value of n is passed after the loop
PDoWhile ==
  [name |-> "dowhile", na |-> 1, nb |-> 3, cs |-> 6,
   insts |-> << Ins("br", 1, <<>>, <<2>>),
               Ins("phi", 2, <<vC(0), vI(3)>>, <<1, 2>>),
               Ins("add", 2, <<vI(2), vC(1)>>, <<>>),
               Ins("lt", 2, <<vI(3), vA(1)>>, <<>>),
               Ins("condbr", 2, <<vI(4)>>, <<2, 3>>),
               CallI(3, "g1", <<vI(3)>>),
               Ins("ret", 3, <<>>, <<>>) >>]

\* a loop whose latch holds the exit test; the header PHI is passed
PLatch ==
  [name |-> "latch", na |-> 1, nb |-> 4, cs |-> 7,
   insts |-> << Ins("br", 1, <<>>, <<2>>),
               Ins("phi", 2, <<vC(0), vI(4)>>, <<1, 3>>),
               Ins("br", 2, <<>>, <<3>>),
               Ins("add", 3, <<vI(2), vC(1)>>, <<>>),
               Ins("lt", 3, <<vI(4), vA(1)>>, <<>>),
               Ins("condbr", 3, <<vI(5)>>, <<2, 4>>),
               CallI(4, "g1", <<vI(2)>>),
               Ins("ret", 4, <<>>, <<>>) >>]

\* while (i < a) i = i + 1; the loop-closed PHI of i is passed
PLcssa ==
  [name |-> "lcssa", na |-> 1, nb |-> 4, cs |-> 8,
   insts |-> << Ins("br", 1, <<>>, <<2>>),
               Ins("phi", 2, <<vC(0), vI(5)>>, <<1, 3>>),
               Ins("lt", 2, <<vI(2), vA(1)>>, <<>>),
               Ins("condbr", 2, <<vI(3)>>, <<3, 4>>),
               Ins("add", 3, <<vI(2), vC(1)>>, <<>>),
               Ins("br", 3, <<>>, <<2>>),
               Ins("phi", 4, <<vI(2)>>, <<2>>),
               CallI(4, "g2", <<vI(7)>>),
               Ins("ret", 4, <<>>, <<>>) >>]

\* a PHI one of whose incoming blocks ends in a switch with a single target
PSwitch ==
  [name |-> "switchpred", na |-> 2, nb |-> 4, cs |-> 5,
   insts |-> << Ins("condbr", 1, <<vA(1)>>, <<2, 3>>),
               Ins("switch", 2, <<vA(2)>>, <<4>>),
               Ins("br", 3, <<>>, <<4>>),
               Ins("phi", 4, <<vC(1), vC(2)>>, <<2, 3>>),
               CallI(4, "g1", <<vI(4)>>),
               Ins("ret", 4, <<>>, <<>>) >>]

\* the argument is computed from a load
PImpure ==
  [name |-> "impure", na |-> 1, nb |-> 1, cs |-> 3,
   insts |-> << Ins("load", 1, <<vA(1)>>, <<>>),
               Ins("add", 1, <<vI(1), vC(1)>>, <<>>),
               CallI(1, "g1", <<vI(2)>>),
               Ins("ret", 1, <<>>, <<>>) >>]

\* the argument is a formal parameter of the caller, not an instruction
PArgPass ==
  [name |-> "argpass", na |-> 1, nb |-> 1, cs |-> 1,
   insts |-> << CallI(1, "g1", <<vA(1)>>),
               Ins("ret", 1, <<>>, <<>>) >>]

\* a caller whose callee is itself one of the callers
PChain ==
  [name |-> "chain", na |-> 1, nb |-> 1, cs |-> 2,
   insts |-> << Ins("add", 1, <<vA(1), vC(1)>>, <<>>),
               CallI(1, "straight", <<vI(1), vA(1)>>),
               Ins("ret", 1, <<>>, <<>>) >>]

\* a caller with two calls that are passed the same instruction: the first
\* of them is the candidate
PTwoCalls ==
  [name |-> "twocalls", na |-> 1, nb |-> 1, cs |-> 2,
   insts |-> << Ins("add", 1, <<vA(1), vC(1)>>, <<>>),
               CallI(1, "g1", <<vI(1)>>),
               CallI(1, "g2", <<vI(1)>>),
               Ins("ret", 1, <<>>, <<>>) >>]

\* the same caller, the second of its calls being the candidate
PTwoCallsAgain == [PTwoCalls EXCEPT !.cs = 3]

\* the candidates: each is a caller, whose field cs is the candidate call
Callers ==
  << PStraight, PDiamond, PBypass, PDoWhile, PLatch, PLcssa, PSwitch,
     PImpure, PArgPass, PChain, PTwoCalls, PTwoCallsAgain >>

(***************************************************************************)
(* The callees that are no callers.  A callee has one formal parameter per  *)
(* call operand; its body is straight-line.                                *)
(***************************************************************************)
\* one instruction uses the parameter once
CalleeG1 ==
  [name |-> "g1", na |-> 1,
   insts |-> << Ins("add", 1, <<vA(1), vC(1)>>, <<>>),
               Ins("ret", 1, <<vI(1)>>, <<>>) >>]

\* two instructions use the parameter, one of them twice
CalleeG2 ==
  [name |-> "g2", na |-> 1,
   insts |-> << Ins("add", 1, <<vA(1), vC(1)>>, <<>>),
               Ins("add", 1, <<vA(1), vA(1)>>, <<>>),
               Ins("add", 1, <<vI(1), vI(2)>>, <<>>),
               Ins("ret", 1, <<vI(3)>>, <<>>) >>]

Callees == [g1 |-> CalleeG1, g2 |-> CalleeG2]


(***************************************************************************)
(* The control-flow graph of a caller and the analyses LLVM supplies:      *)
(* DominatorTree, PostDominatorTree and LoopInfo.                          *)
(***************************************************************************)
Blocks(p) == 1..p.nb
InstIds(p) == DOMAIN p.insts
InstsOf(p, b) == SelectIdx(p.insts, LAMBDA i : i.b = b)

\* BasicBlock::getTerminator: the last instruction when it is a terminator
Term(p, b) ==
  \* the last instruction of b, 0 when b is empty
  LET last == Only({IF is = <<>> THEN 0 ELSE is[Len(is)] : is \in Val(InstsOf(p, b))})
  IN IF last # 0 /\ isTerminator(p.insts[last].k) THEN last ELSE 0

Succs(p, b) ==
  Only({IF t = 0 THEN <<>> ELSE p.insts[t].tgt : t \in Val(Term(p, b))})
SuccSet(p, b) == Range(Succs(p, b))
PredSet(p, b) == {q \in Blocks(p) : b \in SuccSet(p, q)}
\* one predecessor per incoming edge, as pred_size counts them
PredEdges(p, b) ==
  {e \in Blocks(p) \X (1..p.nb) :
     \E S \in {Succs(p, e[1])} : e[2] \in DOMAIN S /\ S[e[2]] = b}

RECURSIVE ReachAvoiding(_, _, _)
\* the blocks reached from S along edges of nxt without entering avoid
ReachAvoiding(nxt, S, avoid) ==
  Only({IF N = S THEN S ELSE ReachAvoiding(nxt, N, avoid) :
          N \in Val(S \cup {t \in UNION {nxt[s] : s \in S} : t \notin avoid})})

SuccFn(p) == [b \in Blocks(p) |-> SuccSet(p, b)]

\* DominatorTree::dominates(a, b): every path from the entry to b enters a
DTdominates(nxt, a, b) ==
  a = b \/ a = 1 \/ b \notin ReachAvoiding(nxt, {1}, {a})

RECURSIVE furthestAway(_, _, _, _)
\* the block a forward depth-first walk from the work list numbers last,
\* the blocks of seen being left out
furthestAway(p, stack, seen, last) ==
  IF stack = <<>> THEN last
  ELSE IF Head(stack) \in seen THEN furthestAway(p, Tail(stack), seen, last)
       ELSE furthestAway(p, Succs(p, Head(stack)) \o Tail(stack),
                         seen \cup {Head(stack)}, Head(stack))

RECURSIVE findRoots(_, _, _, _, _)
\* the root candidates of the post-dominator tree: the blocks without
\* successors and, for the blocks that reach none of the roots found so far,
\* taken in function order, the block furthest away from the first of them
findRoots(p, nxt, b, roots, reached) ==
  IF b > p.nb THEN roots
  ELSE IF b \in reached THEN findRoots(p, nxt, b + 1, roots, reached)
       ELSE Only({findRoots(p, nxt, b + 1, roots \cup {r},
                            reached \cup ReachAvoiding([x \in Blocks(p) |->
                                                          {q \in Blocks(p) : x \in nxt[q]}],
                                                       {r}, {})) :
                    r \in Val(furthestAway(p, <<b>>, reached, b))})

\* PostDominatorTree::recalculate's roots: a candidate with successors from
\* which another candidate is reached is redundant
PDTRoots(p, nxt) ==
  Only({{r \in cs : nxt[r] = {} \/ ReachAvoiding(nxt, {r}, {}) \cap cs = {r}} :
          cs \in Val(Only({findRoots(p, nxt, 1, exits,
                                     ReachAvoiding([x \in Blocks(p) |->
                                                      {q \in Blocks(p) : x \in nxt[q]}],
                                                   exits, {})) :
                             exits \in Val({b \in Blocks(p) : nxt[b] = {}})}))})

\* PostDominatorTree::dominates(a, b): every path from b to a root enters a
PDTdominates(nxt, roots, a, b) ==
  a = b \/ ReachAvoiding(nxt, {b}, {a}) \cap roots = {}

\* a caller carries the analyses LLVM has computed for it: field DT holds,
\* for each block, the blocks it dominates, and field PDT the blocks it
\* post-dominates
Dom(p, a, b) == b \in p.DT[a]
PDom(p, a, b) == b \in p.PDT[a]

StrictDoms(p, b) == {a \in Blocks(p) : a # b /\ Dom(p, a, b)}
StrictPDoms(p, b) == {a \in Blocks(p) : a # b /\ PDom(p, a, b)}

\* DomTreeNode::getIDom; 0 stands for the null node
IDom(p, b) ==
  Only({IF S = {} THEN 0 ELSE CHOOSE a \in S : \A c \in S : Dom(p, c, a) :
          S \in Val(StrictDoms(p, b))})

\* getIDom in the post-dominator tree; 0 is the virtual root
IPDom(p, b) ==
  Only({IF S = {} THEN 0 ELSE CHOOSE a \in S : \A c \in S : PDom(p, c, a) :
          S \in Val(StrictPDoms(p, b))})

RECURSIVE DFSVisit(_, _, _)
\* depth-first preorder over the successors in their order; stack is the work list
DFSVisit(p, stack, order) ==
  IF stack = <<>> THEN order
  ELSE IF Head(stack) \in Range(order) THEN DFSVisit(p, Tail(stack), order)
       ELSE DFSVisit(p, Succs(p, Head(stack)) \o Tail(stack),
                     Append(order, Head(stack)))

\* the children of a dominator-tree node, in the order the tree holds them
DomChildren(p, b) ==
  Only({[j \in DOMAIN kids |-> p.DFSOrder[kids[j]]] :
          kids \in Val(SelectIdx(p.DFSOrder, LAMBDA c : IDom(p, c) = b))})

\* the natural loop of header h: h and the blocks that reach a latch of h
LoopOf(p, h) ==
  Only({IF latches = {} THEN {}
        ELSE ReachAvoiding([b \in Blocks(p) |-> PredSet(p, b)],
                           latches \ {h}, {h}) \cup {h} :
          latches \in Val({t \in PredSet(p, h) : Dom(p, h, t)})})

\* LoopInfo::getLoopDepth
getLoopDepth(p, b) == Cardinality({h \in Blocks(p) : b \in LoopOf(p, h)})

(***************************************************************************)
(* Dependence analyzer: gates and data dependences.                        *)
(***************************************************************************)
RECURSIVE getControllerFrom(_, _, _)
getControllerFrom(p, BB, dom_node) ==
  IF dom_node = 0 THEN 0
  ELSE IF ~PDom(p, BB, dom_node) THEN dom_node
       ELSE getControllerFrom(p, BB, IDom(p, dom_node))

\* the nearest dominator of BB (BB included) that BB does not post-dominate
getController(p, BB) == getControllerFrom(p, BB, BB)

\* the terminator of BB when it is a branch or a switch; `condition` is left
\* unset for any other terminator
getGate(p, BB) ==
  Only({IF t # 0 /\ p.insts[t].k \in {"br", "condbr", "switch"}
        THEN vI(t) ELSE <<"u", 0>> : t \in Val(Term(p, BB))})

\* the gate one predecessor contributes to BB, <<>> when it contributes none
gateOfPred(p, BB, pred) ==
  IF Dom(p, pred, BB) /\ ~PDom(p, BB, pred)
  THEN <<getGate(p, pred)>>
  ELSE Only({IF ctrl_BB # 0 THEN <<getGate(p, ctrl_BB)>> ELSE <<>> :
               ctrl_BB \in Val(getController(p, pred))})

RECURSIVE gatesOfPreds(_, _, _)
gatesOfPreds(p, BB, preds) ==
  IF preds = <<>> THEN <<>>
  ELSE gateOfPred(p, BB, Head(preds)) \o gatesOfPreds(p, BB, Tail(preds))

\* the predecessors of BB, one per edge
PredSeq(p, BB) ==
  Only({[n \in DOMAIN qs |-> qs[n] \div (p.nb + 1)] :
          qs \in Val(SetToSeq({e[1] * (p.nb + 1) + e[2] : e \in PredEdges(p, BB)}))})

computeGates(p) ==
  [BB \in Blocks(p) |->
     Only({IF Len(preds) > 1 THEN gatesOfPreds(p, BB, preds) ELSE <<>> :
             preds \in Val(PredSeq(p, BB))})]

\* the caller p with the dominator and post-dominator trees built for it
withDomTrees(p) ==
  Only({[name |-> p.name, na |-> p.na, nb |-> p.nb, cs |-> p.cs, insts |-> p.insts,
         DT |-> [a \in Blocks(p) |-> {b \in Blocks(p) : DTdominates(nxt, a, b)}],
         PDT |-> Only({[a \in Blocks(p) |->
                          {b \in Blocks(p) : PDTdominates(nxt, roots, a, b)}] :
                         roots \in Val(PDTRoots(p, nxt))}),
         DFSOrder |-> DFSVisit(p, <<1>>, <<>>)] :
          nxt \in Val(SuccFn(p))})

\* and with the dominator-tree children, the loop depths and the gates
withAnalyses(p) ==
  Only({[name |-> q.name, na |-> q.na, nb |-> q.nb, cs |-> q.cs, insts |-> q.insts,
         DT |-> q.DT, PDT |-> q.PDT, DFSOrder |-> q.DFSOrder,
         DomKids |-> [b \in Blocks(q) |-> DomChildren(q, b)],
         LoopDepth |-> [b \in Blocks(q) |-> getLoopDepth(q, b)],
         gates |-> computeGates(q)] :
          q \in Val(withDomTrees(p))})

\* the callers, analysed
Progs ==
  Tabulated([i \in DOMAIN Callers |-> withAnalyses(Callers[i])])

ProgIds == DOMAIN Callers

RECURSIVE pushOperandsUnmarked(_, _, _)
\* the operands pushed whether or not they were pushed before
pushOperandsUnmarked(ops, visited, to_visit) ==
  IF ops = <<>> THEN [visited |-> visited, to_visit |-> to_visit]
  ELSE LET U == Head(ops)
       IN IF ~isInstruction(U) /\ ~isArgument(U)
          THEN pushOperandsUnmarked(Tail(ops), visited, to_visit)
          ELSE pushOperandsUnmarked(Tail(ops), visited, Append(to_visit, U))

\* the operands of dep that are instructions or arguments, in operand order
RECURSIVE pushOperands(_, _, _)
pushOperands(ops, visited, to_visit) ==
  IF ops = <<>> THEN [visited |-> visited, to_visit |-> to_visit]
  ELSE LET U == Head(ops)
       IN IF (~isInstruction(U) /\ ~isArgument(U)) \/ U \in visited
          THEN pushOperands(Tail(ops), visited, to_visit)
          ELSE pushOperands(Tail(ops), visited \cup {U}, Append(to_visit, U))

\* the gates of a PHI's block left out of the work list
pushNoGates(gs, visited, to_visit) == to_visit

RECURSIVE pushGates(_, _, _)
pushGates(gs, visited, to_visit) ==
  IF gs = <<>> THEN to_visit
  ELSE IF Head(gs) \notin visited
       THEN pushGates(Tail(gs), visited, Append(to_visit, Head(gs)))
       ELSE pushGates(Tail(gs), visited, to_visit)

\* one iteration of the work-list loop
ddStep(p, gates, st) ==
  LET cur == Head(st.to_visit)
      isI == isInstruction(cur)
      dep == p.insts[cur[2]]
      afterOps == IF isI THEN pushOperands(dep.ops, st.visited, Tail(st.to_visit))
                  ELSE [visited |-> st.visited, to_visit |-> Tail(st.to_visit)]
      isPhi == isI /\ dep.k = "phi"
  IN [deps |-> st.deps \cup {cur},
      BBs |-> st.BBs \cup (IF isI THEN {dep.b} ELSE {})
                   \cup (IF isPhi THEN Range(dep.tgt) ELSE {}),
      visited |-> afterOps.visited,
      to_visit |-> IF isPhi THEN pushGates(gates[dep.b], afterOps.visited, afterOps.to_visit)
                   ELSE afterOps.to_visit,
      iters |-> st.iters + 1]

RECURSIVE ddLoop(_, _, _)
ddLoop(p, gates, st) ==
  IF st.to_visit = <<>> THEN st
  ELSE Only({ddLoop(p, gates, st1) : st1 \in Val(ddStep(p, gates, st))})

get_data_dependences_for(p, I, gates) ==
  ddLoop(p, gates, [deps |-> {vI(I)}, BBs |-> {}, visited |-> {},
                    to_visit |-> <<vI(I)>>, iters |-> 0])

(***************************************************************************)
(* The slice of a candidate.                                               *)
(***************************************************************************)
\* the immediate post-dominator taken as the attractor, in the slice or not
attractorIsIPDom(p, BBs, Cand) == Cand

RECURSIVE attractorFrom(_, _, _)
attractorFrom(p, BBs, Cand) ==
  IF Cand = 0 THEN 0
  ELSE IF Cand \in BBs THEN Cand
       ELSE attractorFrom(p, BBs, IPDom(p, Cand))

computeAttractorBlocks(p, BBs) ==
  [BB \in Blocks(p) |->
     IF BB \in BBs THEN BB ELSE attractorFrom(p, BBs, IPDom(p, BB))]

\* the slice the constructor fills from the result dd of the dependence
\* analysis
sliceFrom(i, F, Initial, CallSite, dd) ==
  [prog |-> i,
   parentFunction |-> F,
   insts |-> {v[2] : v \in {d \in dd.deps : isInstruction(d)}},
   depArgs |-> SetToSeq({v[2] : v \in {d \in dd.deps : isArgument(d)}}),
   initial |-> Initial,
   BBs |-> dd.BBs,
   CallSite |-> CallSite,
   attractors |-> computeAttractorBlocks(F, dd.BBs)]

\* ProgramSlice::ProgramSlice(Initial, F, CallSite), F being caller i
ProgramSlice(i, F, Initial, CallSite) ==
  Only({sliceFrom(i, F, Initial, CallSite, dd) :
          dd \in Val(get_data_dependences_for(F, Initial, F.gates))})

(***************************************************************************)
(* Slice validator.                                                        *)
(***************************************************************************)
mayThrow(I) == I.k = "call"
mayReadOrWriteMemory(I) == I.k \in {"load", "store", "call"}
willReturn(I) == I.k # "call"

Users(p, v) == {n \in InstIds(p) : v \in Range(p.insts[n].ops)}

RECURSIVE hasAddressTaken(_, _)
hasAddressTaken(p, AI) ==
  \E n \in Users(p, vI(AI)) :
    LET I == p.insts[n]
    IN CASE I.k = "store" -> I.ops[1] = vI(AI)
         [] I.k = "ptrtoint" -> TRUE
         [] I.k = "call" -> TRUE
         [] I.k \in {"gep", "bitcast", "select", "phi"} -> hasAddressTaken(p, n)
         [] I.k \in {"load", "ret"} -> FALSE
         [] OTHER -> TRUE

\* canOutline refusing only the blocks of a lower loop depth than the call
canOutlineSameDepth(s) ==
  LET p == s.parentFunction
      d == s.parentFunction.LoopDepth
      callBB == s.parentFunction.insts[s.CallSite].b
      init == s.parentFunction.insts[s.initial]
  IN /\ \A n \in s.insts :
          /\ ~mayThrow(p.insts[n])
          /\ ~mayReadOrWriteMemory(p.insts[n])
          /\ willReturn(p.insts[n])
          /\ (p.insts[n].k = "alloca" => ~hasAddressTaken(p, n))
     /\ (d[callBB] > 0 => \A BB \in s.BBs : d[BB] >= d[callBB])
     /\ init.k # "alloca"
     /\ ((init.k = "phi" /\ Len(init.ops) = 1) => Term(p, init.tgt[1]) \in s.insts)

\* canOutline without the test for memory effects
canOutlineIgnoringMemory(s) ==
  LET p == s.parentFunction
      d == s.parentFunction.LoopDepth
      callBB == s.parentFunction.insts[s.CallSite].b
      init == s.parentFunction.insts[s.initial]
  IN /\ \A n \in s.insts :
          /\ ~mayThrow(p.insts[n])
          /\ willReturn(p.insts[n])
          /\ (p.insts[n].k = "alloca" => ~hasAddressTaken(p, n))
     /\ (d[callBB] > 0 => \A BB \in s.BBs : d[BB] > d[callBB])
     /\ init.k # "alloca"
     /\ ((init.k = "phi" /\ Len(init.ops) = 1) => Term(p, init.tgt[1]) \in s.insts)

canOutline(s) ==
  LET p == s.parentFunction
      d == s.parentFunction.LoopDepth
      callBB == s.parentFunction.insts[s.CallSite].b
      init == s.parentFunction.insts[s.initial]
  IN /\ \A n \in s.insts :
          /\ ~mayThrow(p.insts[n])
          /\ ~mayReadOrWriteMemory(p.insts[n])
          /\ willReturn(p.insts[n])
          /\ (p.insts[n].k = "alloca" => ~hasAddressTaken(p, n))
     /\ (d[callBB] > 0 => \A BB \in s.BBs : d[BB] > d[callBB])
     /\ init.k # "alloca"
     /\ ((init.k = "phi" /\ Len(init.ops) = 1) => Term(p, init.tgt[1]) \in s.insts)

\* ProgramSlice::verify is declared in ProgramSlice.h; the validator rejects
\* on no other ground than those of canOutline
verify(s) == TRUE


(***************************************************************************)
(* Slice outliner.  The thunk body F under construction is a record        *)
(*   [blocks, body, ub]                                                    *)
(* blocks the layout of its basic blocks, body the instructions of each    *)
(* block and ub set once the construction has run into undefined           *)
(* behaviour.  A block of F is <<"n", b>> (the clone of caller block b),   *)
(* <<"u", 0>> (_wyvern_unreachable), <<"me", 0>> (_wyvern_memo_entry) or   *)
(* <<"mr", 0>> (_wyvern_memo_ret); <<"o", b>> is caller block b itself.    *)
(* An instruction of F is [id, k, ops, tgt, fld]; the clone of caller      *)
(* instruction n has id <<"n", n>>.                                        *)
(***************************************************************************)
nB(b) == <<"n", b>>
oB(b) == <<"o", b>>
unreachableBlock == <<"u", 0>>
thunkStructPtr == <<"tp", 0>>

FIns(id, k, ops, tgt, fld) == [id |-> id, k |-> k, ops |-> ops, tgt |-> tgt, fld |-> fld]

\* BasicBlock::getTerminator in F: the index of the terminator, 0 for none
termIdx(F, B) ==
  LET is == F.body[B]
  IN IF is # <<>> /\ isTerminator(is[Len(is)].k) THEN Len(is) ELSE 0

succsF(F, B) == IF termIdx(F, B) = 0 THEN <<>> ELSE F.body[B][termIdx(F, B)].tgt
predsF(F, B) == {Q \in Range(F.blocks) : B \in Range(succsF(F, Q))}

mapInsts(F, f(_, _)) ==
  [F EXCEPT !.body = [B \in DOMAIN F.body |->
                        [j \in DOMAIN F.body[B] |-> f(B, F.body[B][j])]]]

appendInst(F, B, I) == [F EXCEPT !.body[B] = Append(@, I)]

addBlock(F, B, insts) ==
  [F EXCEPT !.blocks = Append(@, B),
            !.body = [X \in DOMAIN F.body \cup {B} |->
                        IF X = B THEN insts ELSE F.body[X]]]

\* PHINode::replaceIncomingBlockWith
replaceIncomingBlockWith(I, Old, New) ==
  [I EXCEPT !.tgt = [j \in DOMAIN I.tgt |-> IF I.tgt[j] = Old THEN New ELSE I.tgt[j]]]

\* one empty block per block of the slice, in the order the set is iterated
populateFunctionWithBBs(s, order) ==
  [blocks |-> [j \in DOMAIN order |-> nB(order[j])],
   body |-> [B \in {nB(b) : b \in s.BBs} |-> <<>>],
   ub |-> FALSE]

cloneInst(p, n) ==
  FIns(<<"n", n>>, p.insts[n].k, p.insts[n].ops,
       [j \in DOMAIN p.insts[n].tgt |-> oB(p.insts[n].tgt[j])], 0)

populateBBsWithInsts(s, F) ==
  LET p == s.parentFunction
      sel(b) == SetToSeq({n \in s.insts : p.insts[n].b = b})
  IN [F EXCEPT !.body = [B \in DOMAIN F.body |->
                           [j \in DOMAIN sel(B[2]) |-> cloneInst(p, sel(B[2])[j])]]]

reorganizeUses(s, F) ==
  mapInsts(F, LAMBDA B, I :
    [I EXCEPT
       !.ops = [j \in DOMAIN I.ops |->
                  IF I.ops[j][1] = "i" /\ I.ops[j][2] \in s.insts
                  THEN <<"n", I.ops[j][2]>> ELSE I.ops[j]],
       !.tgt = [j \in DOMAIN I.tgt |->
                  IF I.k = "phi" /\ I.tgt[j][1] = "o" /\ I.tgt[j][2] \in s.BBs
                  THEN nB(I.tgt[j][2]) ELSE I.tgt[j]]])

RECURSIVE addDomBranches(_, _, _, _)
RECURSIVE addDomChildren(_, _, _, _)
\* cur and parent are caller blocks; parent is 0 for the null node
addDomBranches(s, F, cur, parent) ==
  addDomChildren(s, F, s.parentFunction.DomKids[cur], IF cur \in s.BBs THEN cur ELSE parent)

addDomChildren(s, F, kids, parent) ==
  IF kids = <<>> THEN F
  ELSE LET child == Head(kids)
       IN Only({
            Only({addDomChildren(s, F2, Tail(kids), parent) : F2 \in Val(IF child \in s.BBs /\ parent # 0 /\ termIdx(F1, nB(parent)) = 0
                 THEN appendInst(F1, nB(parent),
                                 FIns(<<"br", parent>>, "br", <<>>, <<nB(child)>>, 0))
                 ELSE F1)}) : F1 \in Val(addDomBranches(s, F, child, parent))})

\* a use of Old among the block operands of F becomes New
replaceBlockUses(F, Old, New) ==
  mapInsts(F, LAMBDA B, I : replaceIncomingBlockWith(I, Old, New))

\* the PHIs of block T take New for Old as incoming block
replacePhiIncoming(F, T, Old, New) ==
  mapInsts(F, LAMBDA B, I :
    IF B = T /\ I.k = "phi" THEN replaceIncomingBlockWith(I, Old, New) ELSE I)

\* a block without terminator whose original ends in a branch: branch to the
\* clone of the attractor of the first successor that has one
rerouteUnterminated(s, F, BB) ==
  LET p == s.parentFunction
      parentBB == BB[2]
      t == Term(p, parentBB)
      sucs == IF t # 0 /\ p.insts[t].k \in {"br", "condbr"} THEN p.insts[t].tgt ELSE <<>>
      ok == {j \in DOMAIN sucs : s.attractors[sucs[j]] # 0}
  IN IF ok = {} THEN F
     ELSE LET j == CHOOSE x \in ok : \A y \in ok : x <= y
              newTarget == nB(s.attractors[sucs[j]])
          IN Only({mapInsts(F1, LAMBDA B, I :
                    IF B = newTarget /\ I.k = "phi"
                    THEN [I EXCEPT !.tgt = [n \in DOMAIN I.tgt |->
                            IF I.tgt[n][1] = "o" /\ I.tgt[n][2] # parentBB
                               /\ Dom(s.parentFunction, parentBB, I.tgt[n][2])
                            THEN BB ELSE I.tgt[n]]]
                    ELSE I) : F1 \in Val(appendInst(F, BB, FIns(<<"br", parentBB>>, "br", <<>>,
                                         <<newTarget>>, 0)))})

RECURSIVE rerouteSuccessors(_, _, _, _)
\* the successors of the cloned branch or switch of BB, from index idx on
rerouteSuccessors(s, F, BB, idx) ==
  LET ti == termIdx(F, BB)
      term == F.body[BB][ti]
  IN IF idx > Len(term.tgt) THEN F
     ELSE LET suc == term.tgt[idx]
          IN IF suc[1] # "o" THEN rerouteSuccessors(s, F, BB, idx + 1)
             ELSE IF s.attractors[suc[2]] = 0
                  THEN Only({
                         Only({rerouteSuccessors(s, F2, BB, idx + 1) : F2 \in Val([F1 EXCEPT !.body[BB][ti].tgt[idx] = unreachableBlock])}) : F1 \in Val(replaceBlockUses(F, suc, unreachableBlock))})
                  ELSE LET newSucc == nB(s.attractors[suc[2]])
                       IN Only({
                            Only({rerouteSuccessors(s, F2, BB, idx + 1) : F2 \in Val(replacePhiIncoming(F1, newSucc, suc, BB))}) : F1 \in Val([F EXCEPT !.body[BB][ti].tgt[idx] = newSucc])})

RECURSIVE rerouteBlocks(_, _, _)
\* the loop over the blocks of F, from layout position j on
rerouteBlocks(s, F, j) ==
  IF j > Len(F.blocks) THEN F
  ELSE LET BB == F.blocks[j]
       IN Only({rerouteBlocks(s, F1, j + 1) : F1 \in Val(IF termIdx(F, BB) = 0 THEN rerouteUnterminated(s, F, BB)
               ELSE IF F.body[BB][termIdx(F, BB)].k \in {"br", "condbr", "switch"}
                    THEN rerouteSuccessors(s, F, BB, 1)
                    ELSE F)})

eraseBlock(F, B) ==
  [F EXCEPT !.blocks = SelectSeq(F.blocks, LAMBDA X : X # B),
            !.body = [X \in DOMAIN F.body \ {B} |-> F.body[X]]]

RECURSIVE sweepIncoming(_, _, _, _)
\* the loop of updatePHINodes over one PHI.  st.blks and st.vals are the
\* operand storage of the PHI, of which the first st.n entries are live;
\* PE is the number of incoming values when the loop began.
sweepIncoming(st, preds, PI, PE) ==
  IF PI > PE \/ st.ub THEN st
  ELSE IF st.n = 0 THEN [st EXCEPT !.ub = TRUE]
  ELSE LET incBB == st.blks[PI]
       IN IF incBB \in preds THEN sweepIncoming(st, preds, PI + 1, PE)
          ELSE LET live == SubSeq(st.blks, 1, st.n)
                   Idx == IndexOf(live, incBB)
               IN IF Idx = 0
                  THEN [st EXCEPT !.ub = TRUE]
                  ELSE Only({sweepIncoming(st1, preds, PI + 1, PE) : st1 \in Val([st EXCEPT
                            !.blks = [k \in DOMAIN st.blks |->
                                        IF k >= Idx /\ k < st.n THEN st.blks[k + 1]
                                        ELSE st.blks[k]],
                            !.vals = [k \in DOMAIN st.vals |->
                                        IF k >= Idx /\ k < st.n THEN st.vals[k + 1]
                                        ELSE st.vals[k]],
                            !.n = st.n - 1])})

sweepPhi(F, B, I) ==
  Only({Only({sweepIncoming(st, preds, 1, Len(I.tgt)) : preds \in Val(predsF(F, B))}) : st \in Val([blks |-> I.tgt, vals |-> I.ops, n |-> Len(I.tgt), ub |-> FALSE])})

\* updatePHINodes(F): drop the incoming entries of blocks that are no
\* predecessors; a PHI left without entries is erased and its uses become undef
updatePHINodes(F) ==
  Only({
    LET dead == {F.body[B[1]][B[2]].id :
                   B \in {X \in UNION {{<<Y, j>> : j \in DOMAIN F.body[Y]} :
                                          Y \in DOMAIN F.body} :
                            F.body[X[1]][X[2]].k = "phi" /\ res[X[1]][X[2]].n = 0}}
        anyUB == \E B \in DOMAIN F.body : \E j \in DOMAIN F.body[B] : res[B][j].ub
    IN Only({
         [F EXCEPT
            !.body = [B \in DOMAIN F.body |->
               LET swept == [j \in DOMAIN F.body[B] |->
                               IF F.body[B][j].k = "phi"
                               THEN [F.body[B][j] EXCEPT
                                       !.tgt = SubSeq(res[B][j].blks, 1, res[B][j].n),
                                       !.ops = SubSeq(res[B][j].vals, 1, res[B][j].n)]
                               ELSE F.body[B][j]]
                   undefd == [j \in DOMAIN swept |->
                                [swept[j] EXCEPT !.ops = [o \in DOMAIN swept[j].ops |->
                                   IF swept[j].ops[o] \in erased THEN <<"undef", 0>>
                                   ELSE swept[j].ops[o]]]]
               IN SelectSeq(undefd, LAMBDA I : I.id \notin erased)],
            !.ub = F.ub \/ anyUB] : erased \in Val(dead)}) : res \in Val([B \in DOMAIN F.body |-> [j \in DOMAIN F.body[B] |->
          IF F.body[B][j].k = "phi" THEN sweepPhi(F, B, F.body[B][j])
          ELSE [blks |-> <<>>, vals |-> <<>>, n |-> 1, ub |-> FALSE]]])})

rerouteBranches(s, F) ==
  Only({
  Only({
  Only({
  Only({
  updatePHINodes(F4) : F4 \in Val(IF predsF(F3, unreachableBlock) = {} THEN eraseBlock(F3, unreachableBlock)
       ELSE F3)}) : F3 \in Val(rerouteBlocks(s, F2, 1))}) : F2 \in Val(addBlock(F1, unreachableBlock,
                <<FIns(<<"unr", 0>>, "unreachable", <<>>, <<>>, 0)>>))}) : F1 \in Val(addDomBranches(s, F, 1, 0))})


\* the block of F holding the instruction with this id, <<"none", 0>> for none
blockOfInst(F, id) ==
  LET Bs == {B \in DOMAIN F.body : \E j \in DOMAIN F.body[B] : F.body[B][j].id = id}
  IN IF Bs = {} THEN <<"none", 0>> ELSE CHOOSE B \in Bs : TRUE

newRetId == <<"ret", 0>>

\* addReturnValue(F): the block of the clone of initial loses its terminator
\* and returns the clone
addReturnValue(s, F) ==
  Only({
    IF exit = <<"none", 0>> THEN [F EXCEPT !.ub = TRUE]
    ELSE LET ti == termIdx(F, exit)
             kept == IF ti # 0 THEN SubSeq(F.body[exit], 1, ti - 1) ELSE F.body[exit]
         IN [F EXCEPT !.body[exit] =
               Append(kept, FIns(newRetId, "ret", <<<<"n", s.initial>>>>, <<>>, 0))] : exit \in Val(blockOfInst(F, <<"n", s.initial>>))})

\* reorderBlocks(F): the last block of the layout without predecessors is
\* moved to the front; with no such block realEntry is null
reorderBlocks(F) ==
  LET cand == {j \in DOMAIN F.blocks : predsF(F, F.blocks[j]) = {}}
  IN IF cand = {} THEN [F EXCEPT !.ub = TRUE]
     ELSE LET j == CHOOSE x \in cand : \A y \in cand : y <= x
              realEntry == F.blocks[j]
          IN [F EXCEPT !.blocks = <<realEntry>> \o SelectSeq(F.blocks,
                                                          LAMBDA X : X # realEntry)]

getEntryBlock(F) == F.blocks[1]

RECURSIVE thunkParamLoads(_, _)
\* the address computation and the load of each captured argument, the first
\* of them reading field i
thunkParamLoads(depArgs, i) ==
  IF depArgs = <<>> THEN <<>>
  ELSE << FIns(<<"ag", Head(depArgs)>>, "gep", <<thunkStructPtr>>, <<>>, i),
          FIns(<<"al", Head(depArgs)>>, "load", <<<<"ag", Head(depArgs)>>>>, <<>>, 0) >>
       \o thunkParamLoads(Tail(depArgs), i + 1)

\* the index of the first instruction of a block that is no PHI
firstInsertionPt(is) ==
  LET np == {j \in DOMAIN is : is[j].k # "phi"}
  IN IF np = {} THEN Len(is) + 1 ELSE CHOOSE x \in np : \A y \in np : x <= y

insertLoadForThunkParams(s, F, memo) ==
  LET entry == getEntryBlock(F)
      at == firstInsertionPt(F.body[entry])
      loads == thunkParamLoads(s.depArgs, IF memo THEN 3 ELSE 1)
  IN Only({mapInsts(F1, LAMBDA B, I :
            [I EXCEPT !.ops = [j \in DOMAIN I.ops |->
               IF I.ops[j][1] = "a" /\ I.ops[j][2] \in Range(s.depArgs)
               THEN <<"al", I.ops[j][2]>> ELSE I.ops[j]]]) : F1 \in Val([F EXCEPT !.body[entry] =
             SubSeq(@, 1, at - 1) \o loads \o SubSeq(@, at, Len(@))])})

\* ProgramSlice::outline; order is the iteration order of _BBsInSlice.  The
\* stages run in the order F1 .. F6, each on the function the one before it
\* left; a function whose construction dereferenced a null pointer (ub) is
\* handed on as it is.
outline(s, order) ==
  Only({
  Only({
  Only({
  Only({
  Only({
  Only({
    IF F6.ub THEN F6 ELSE insertLoadForThunkParams(s, F6, FALSE)
    : F6 \in Val(IF F5.ub THEN F5 ELSE reorderBlocks(F5))})
    : F5 \in Val(addReturnValue(s, F4))})
    : F4 \in Val(rerouteBranches(s, F3))})
    : F3 \in Val(reorganizeUses(s, F2))})
    : F2 \in Val(populateBBsWithInsts(s, F1))})
    : F1 \in Val(populateFunctionWithBBs(s, order))})

memoEntry == <<"me", 0>>
memoRetBlock == <<"mr", 0>>

\* memoStores without the store that sets the flag
memoStoresFlagNotSet(retVal) ==
  << FIns(<<"mst", 2>>, "store", <<retVal, <<"mvg", 0>>>>, <<>>, 0) >>

\* the stores addMemoizationCode inserts before new_ret: the flag is set and
\* the returned value is saved
memoStores(retVal) ==
  << FIns(<<"mst", 1>>, "store", <<vC(1), <<"mfg", 0>>>>, <<>>, 0),
     FIns(<<"mst", 2>>, "store", <<retVal, <<"mvg", 0>>>>, <<>>, 0) >>

\* addMemoizationCode(F, new_ret)
addMemoizationCode(F) ==
  LET oldEntry == getEntryBlock(F)
      prologue ==
        << FIns(<<"mvg", 0>>, "gep", <<thunkStructPtr>>, <<>>, 1),
           FIns(<<"mvl", 0>>, "load", <<<<"mvg", 0>>>>, <<>>, 0),
           FIns(<<"mfg", 0>>, "gep", <<thunkStructPtr>>, <<>>, 2),
           FIns(<<"mfl", 0>>, "load", <<<<"mfg", 0>>>>, <<>>, 0),
           FIns(<<"mtb", 0>>, "trunc", <<<<"mfl", 0>>>>, <<>>, 0),
           FIns(<<"mbr", 0>>, "condbr", <<<<"mtb", 0>>>>, <<memoRetBlock, oldEntry>>, 0) >>
      fast == << FIns(<<"mret", 0>>, "ret", <<<<"mvl", 0>>>>, <<>>, 0) >>
      retB == blockOfInst(F, newRetId)
      ri == termIdx(F, retB)
      stores == memoStores(F.body[retB][ri].ops[1])
  IN [F EXCEPT
        !.blocks = <<memoEntry, memoRetBlock>> \o F.blocks,
        !.body = [B \in DOMAIN F.body \cup {memoEntry, memoRetBlock} |->
                    IF B = memoEntry THEN prologue
                    ELSE IF B = memoRetBlock THEN fast
                    ELSE IF B = retB
                         THEN SubSeq(F.body[B], 1, ri - 1) \o stores
                              \o <<F.body[B][ri]>>
                         ELSE F.body[B]]]

\* ProgramSlice::memoizedOutline: the stages of outline, F1 .. F6, then
\* addMemoizationCode
memoizedOutline(s, order) ==
  Only({
  Only({
  Only({
  Only({
  Only({
  Only({
  Only({
    IF F7.ub THEN F7 ELSE addMemoizationCode(F7)
    : F7 \in Val(IF F6.ub THEN F6 ELSE insertLoadForThunkParams(s, F6, TRUE))})
    : F6 \in Val(IF F5.ub THEN F5 ELSE reorderBlocks(F5))})
    : F5 \in Val(addReturnValue(s, F4))})
    : F4 \in Val(rerouteBranches(s, F3))})
    : F3 \in Val(reorganizeUses(s, F2))})
    : F2 \in Val(populateBBsWithInsts(s, F1))})
    : F1 \in Val(populateFunctionWithBBs(s, order))})

getNumberOfInsts(F) ==
  LET RECURSIVE sum(_)
      sum(bs) == IF bs = <<>> THEN 0 ELSE Len(F.body[Head(bs)]) + sum(Tail(bs))
  IN sum(F.blocks)

\* the iteration orders of the block set drawn here: the blocks by index with
\* any one block moved to the end
BlockOrders(BBs) ==
  {SetToSeq(BBs \ {b}) \o <<b>> : b \in BBs}


(***************************************************************************)
(* Execution of a procedure.  A run-time value is <<"v", n>> (an integer), *)
(* <<"p", f>> (the address of field f of the thunk record) or <<"ub", 0>>  *)
(* (no defined value).  mem maps the fields of the record the procedure is *)
(* called on to their contents; args are the values of the formal          *)
(* parameters `a`; stop is the id of the instruction to halt at.           *)
(***************************************************************************)
V(n) == <<"v", n>>
UB == <<"ub", 0>>

progAsF(p) ==
  [blocks |-> [b \in 1..p.nb |-> oB(b)],
   body |-> [B \in {oB(b) : b \in 1..p.nb} |->
               [j \in DOMAIN InstsOf(p, B[2]) |->
                  LET n == InstsOf(p, B[2])[j]
                  IN FIns(<<"i", n>>, p.insts[n].k, p.insts[n].ops,
                          [t \in DOMAIN p.insts[n].tgt |-> oB(p.insts[n].tgt[t])], 0)]],
   ub |-> FALSE]

evalOp(v, env, args, hasRec) ==
  CASE v[1] = "c" -> V(v[2])
    [] v[1] = "a" -> IF v[2] \in DOMAIN args THEN V(args[v[2]]) ELSE UB
    [] v[1] = "tp" -> IF hasRec THEN <<"p", 0>> ELSE UB
    [] v[1] = "undef" -> UB
    [] OTHER -> IF v \in DOMAIN env THEN env[v] ELSE UB

\* the value an instruction that is no terminator computes, given its operands
compute(I, vs, mem) ==
  CASE I.k = "add" -> IF vs[1][1] = "v" /\ vs[2][1] = "v" THEN V(vs[1][2] + vs[2][2]) ELSE UB
    [] I.k = "lt" -> IF vs[1][1] = "v" /\ vs[2][1] = "v"
                     THEN V(IF vs[1][2] < vs[2][2] THEN 1 ELSE 0) ELSE UB
    [] I.k = "gep" -> IF vs[1][1] = "p" THEN <<"p", I.fld>> ELSE UB
    [] I.k = "load" -> IF vs[1][1] = "p" /\ vs[1][2] \in DOMAIN mem THEN mem[vs[1][2]] ELSE UB
    [] I.k = "trunc" -> vs[1]
    [] I.k = "store" -> IF vs[2][1] = "p" /\ vs[2][2] \in DOMAIN mem /\ vs[1][1] # "ub"
                        THEN V(0) ELSE UB
    [] OTHER -> V(0)

halt(st, status, val) == [st EXCEPT !.status = status, !.val = val]

execStep(F, st, args, hasRec, stop) ==
  LET is == F.body[st.B] IN
  IF st.j > Len(is) THEN halt(st, "ub", UB)
  ELSE
  LET I == is[st.j]
      ev(v) == evalOp(v, st.env, args, hasRec)
      vs == [n \in DOMAIN I.ops |-> ev(I.ops[n])]
      goto(T) == IF T \in DOMAIN F.body
                 THEN [st EXCEPT !.B = T, !.prev = st.B, !.j = 1, !.envIn = st.env,
                                 !.steps = @ + 1]
                 ELSE halt(st, "ub", UB)
  IN IF I.id = stop THEN halt(st, "stop", V(0))
     ELSE CASE I.k = "phi" ->
            LET e == {n \in DOMAIN I.tgt : I.tgt[n] = st.prev}
                val == IF e = {} THEN UB
                       ELSE evalOp(I.ops[CHOOSE n \in e : TRUE], st.envIn, args, hasRec)
            IN IF val = UB THEN halt(st, "ub", UB)
               ELSE [st EXCEPT !.env = (I.id :> val) @@ @, !.j = @ + 1, !.steps = @ + 1]
          [] I.k = "br" -> goto(I.tgt[1])
          [] I.k = "condbr" ->
            IF vs[1][1] # "v" THEN halt(st, "ub", UB)
            ELSE goto(IF vs[1][2] # 0 THEN I.tgt[1] ELSE I.tgt[2])
          [] I.k = "switch" ->
            IF vs[1][1] # "v" THEN halt(st, "ub", UB)
            ELSE goto(IF vs[1][2] + 1 \in 2..Len(I.tgt) THEN I.tgt[vs[1][2] + 1]
                      ELSE I.tgt[1])
          [] I.k = "ret" ->
            IF I.ops = <<>> THEN halt(st, "ret", V(0))
            ELSE IF vs[1] = UB THEN halt(st, "ub", UB) ELSE halt(st, "ret", vs[1])
          [] I.k = "unreachable" -> halt(st, "trap", UB)
          [] OTHER ->
            LET val == compute(I, vs, st.mem)
            IN IF val = UB THEN halt(st, "ub", UB)
               ELSE [st EXCEPT
                       !.env = (I.id :> val) @@ @,
                       !.mem = IF I.k = "store" THEN [@ EXCEPT ![vs[2][2]] = vs[1]] ELSE @,
                       !.j = @ + 1, !.steps = @ + 1]

RECURSIVE execLoop(_, _, _, _, _)
execLoop(F, st, args, hasRec, stop) ==
  IF st.status # "run" THEN st
  ELSE IF st.steps >= MaxSteps THEN halt(st, "fuel", UB)
  ELSE Only({Only({execLoop(F, st2, args, hasRec, stop) : st2 \in Val(execStep(F, st1, args, hasRec, stop))}) : st1 \in Val([st EXCEPT !.slow = @ \/ st.B \notin {memoEntry, memoRetBlock}])})

\* run F from its entry block
Exec(F, args, mem, hasRec, stop) ==
  Only({execLoop(F, st, args, hasRec, stop) : st \in Val([B |-> getEntryBlock(F), prev |-> <<"none", 0>>, j |-> 1,
        env |-> <<>>, envIn |-> <<>>, mem |-> mem, steps |-> 0,
        status |-> "run", val |-> UB, slow |-> FALSE])})

\* the value `initial` holds in the caller when control reaches the call site
origValue(p, initial, CallSite, args) ==
  Only({IF r.status = "stop" /\ <<"i", initial>> \in DOMAIN r.env
        THEN r.env[<<"i", initial>>] ELSE UB :
          r \in Val(Exec(progAsF(p), args, <<>>, FALSE, <<"i", CallSite>>))})


(***************************************************************************)
(* Call-site rewriter (passes/Lazyfication.cpp).  The module is a record   *)
(*   [site, thunks, clones]                                                *)
(* site[i] the call of caller i: the function it calls, its operands and   *)
(* the instructions inserted before it; thunks[i] and clones[i] the thunk  *)
(* body and the cloned callee created for it.  A function is referred to   *)
(* as <<"fn", name>> (a callee of the input), <<"thunk", i>> or            *)
(* <<"clone", i>>.  An instruction of a clone or of the caller's inserted  *)
(* code is [id, k, ops, tgt, fld]; a call holds the called operand as      *)
(* ops[1] and its arguments after it, a gep its index list as fld.         *)
(***************************************************************************)
origFn(name) == <<"fn", name>>
thunkFn(i) == <<"thunk", i>>
cloneFn(i) == <<"clone", i>>
thunkAlloca == <<"ta", 0>>

NoFunction == [blocks |-> <<>>, body |-> <<>>, ub |-> FALSE]
\* a call as the module holds it: the called function, the operands and the
\* instructions inserted before it; NoSite where a function holds no
\* candidate call
NoSite == [called |-> <<>>, args |-> <<>>, pre |-> <<>>]
NoClone == [name |-> <<>>, na |-> 0, insts |-> <<>>, site |-> NoSite]

\* the call instruction of caller p
CallSiteOf(p) == p.cs

\* the call of caller p as the input module holds it
inputSite(p) ==
  Only({[called |-> origFn(p.insts[CI].fn), args |-> p.insts[CI].ops, pre |-> <<>>] :
          CI \in Val(CallSiteOf(p))})

\* the module the pass is handed: no call rewritten, no function created
InputModule ==
  [site |-> [i \in ProgIds |-> inputSite(Callers[i])],
   thunks |-> [i \in ProgIds |-> NoFunction],
   clones |-> [i \in ProgIds |-> NoClone]]

\* std::numeric_limits<unsigned int>::max(), the value SmallestSliceSize holds
\* while no slice was counted; it stands here as the largest integer the
\* model's arithmetic represents, which no slice size reaches
UIntMax == 2147483647

NoStats ==
  [NumCallsitesLazified |-> 0, NumFunctionsLazified |-> 0,
   LargestSliceSize |-> 0, SmallestSliceSize |-> 0, TotalSliceSize |-> 0]

\* updateThunkArgUses creating one call for every use instead of one for
\* every user
updateThunkArgUsesPerUse(insts, thunkArg) ==
  LET RECURSIVE calls(_, _)
      calls(UserI, opNo) ==
        IF opNo > Len(UserI.ops) THEN <<>>
        ELSE (IF UserI.ops[opNo] = thunkArg
              THEN <<FIns(<<"tc", UserI.id[2], opNo>>, "call", <<thunkArg>>, <<>>, <<>>)>>
              ELSE <<>>)
             \o calls(UserI, opNo + 1)
      RECURSIVE walk(_)
      walk(is) ==
        IF is = <<>> THEN <<>>
        ELSE LET UserI == Head(is)
             IN calls(UserI, 1)
                \o <<[UserI EXCEPT !.ops = [o \in DOMAIN UserI.ops |->
                        IF UserI.ops[o] = thunkArg THEN <<"tc", UserI.id[2], o>>
                        ELSE UserI.ops[o]]]>>
                \o walk(Tail(is))
  IN walk(insts)

\* updateThunkArgUses: one call of thunkArg before every instruction using
\* it, and every use by that instruction replaced by the call
updateThunkArgUses(insts, thunkArg) ==
  LET RECURSIVE walk(_)
      walk(is) ==
        IF is = <<>> THEN <<>>
        ELSE LET UserI == Head(is)
                 thunkCall == <<"tc", UserI.id[2]>>
             IN (IF thunkArg \in Range(UserI.ops)
                 THEN << FIns(thunkCall, "call", <<thunkArg>>, <<>>, <<>>),
                         [UserI EXCEPT !.ops = [j \in DOMAIN UserI.ops |->
                            IF UserI.ops[j] = thunkArg THEN thunkCall
                            ELSE UserI.ops[j]]] >>
                 ELSE <<UserI>>) \o walk(Tail(is))
  IN walk(insts)

\* the three instructions updateMemoizedThunkArgUses creates for one use
memoForce(thunkArg, n, opNo) ==
  << FIns(<<"fg", n, opNo>>, "gep", <<thunkArg>>, <<>>, <<0, 0>>),
     FIns(<<"fl", n, opNo>>, "load", <<<<"fg", n, opNo>>>>, <<>>, <<>>),
     FIns(<<"fc", n, opNo>>, "call", <<<<"fl", n, opNo>>, thunkArg>>, <<>>, <<>>) >>

\* updateMemoizedThunkArgUses: address, load and call before the user of
\* every use; the using instruction keeps its operands
updateMemoizedThunkArgUses(insts, thunkArg) ==
  LET RECURSIVE forces(_, _)
      forces(UserI, opNo) ==
        IF opNo > Len(UserI.ops) THEN <<>>
        ELSE (IF UserI.ops[opNo] = thunkArg
              THEN memoForce(thunkArg, UserI.id[2], opNo) ELSE <<>>)
             \o forces(UserI, opNo + 1)
      RECURSIVE walk(_)
      walk(is) ==
        IF is = <<>> THEN <<>>
        ELSE forces(Head(is), 1) \o <<Head(is)>> \o walk(Tail(is))
  IN walk(insts)

\* CI.getCalledFunction() for the call of caller i, with the body the module
\* holds for it now: a callee that is one of the callers has its own call in
\* the state the pass has left it in
getCalledFunction(mod, i) ==
  IF mod.site[i].called[2] \in DOMAIN Callees
  THEN [name |-> mod.site[i].called[2],
        na |-> Callees[mod.site[i].called[2]].na,
        insts |-> Callees[mod.site[i].called[2]].insts,
        site |-> NoSite]
  ELSE Only({[name |-> Callers[j].name, na |-> Callers[j].na,
              insts |-> Callers[j].insts, site |-> mod.site[j]] :
               j \in {x \in ProgIds : Callers[x].name = mod.site[i].called[2]}})

\* cloneCalleeFunction(Callee, index, slicedFunction, M); CloneFunctionInto
\* copies the callee's call as it is
cloneCalleeFunction(Callee, index, memo) ==
  LET cloned == [j \in DOMAIN Callee.insts |->
                   FIns(<<"n", j>>, Callee.insts[j].k,
                        [o \in DOMAIN Callee.insts[j].ops |->
                           IF isInstruction(Callee.insts[j].ops[o])
                           THEN <<"n", Callee.insts[j].ops[o][2]>>
                           ELSE Callee.insts[j].ops[o]],
                        <<>>, <<>>)]
      thunkArg == vA(index)
  IN [name |-> <<"_wyvern_calleeclone", Callee.name, index>>,
      na |-> Callee.na,
      insts |-> IF memo THEN updateMemoizedThunkArgUses(cloned, thunkArg)
                ELSE updateThunkArgUses(cloned, thunkArg),
      site |-> Callee.site]

\* the instructions lazifyCallsite inserts before the call in memoized mode
thunkRecordSetup(i) ==
  << FIns(thunkAlloca, "alloca", <<>>, <<>>, <<>>),
     FIns(<<"tfg", 0>>, "gep", <<thunkAlloca>>, <<>>, <<0>>),
     FIns(<<"tfs", 0>>, "store", <<thunkFn(i), <<"tfg", 0>>>>, <<>>, <<>>),
     FIns(<<"tlg", 0>>, "gep", <<thunkAlloca>>, <<>>, <<2>>),
     FIns(<<"tls", 0>>, "store", <<vC(0), <<"tlg", 0>>>>, <<>>, <<>>) >>

\* the statistics update with the largest size replaced by the latest
countSliceLatestAsLargest(st, sliceSize) ==
  [st EXCEPT
     !.TotalSliceSize = @ + sliceSize,
     !.LargestSliceSize = sliceSize,
     !.SmallestSliceSize = IF @ > sliceSize THEN sliceSize ELSE @]

\* the statistics after a slice of sliceSize instructions was lazified
countSlice(st, sliceSize) ==
  [st EXCEPT
     !.TotalSliceSize = @ + sliceSize,
     !.LargestSliceSize = IF @ < sliceSize THEN sliceSize ELSE @,
     !.SmallestSliceSize = IF @ > sliceSize THEN sliceSize ELSE @]

\* ProgramSlice(*lazyfiableArg, *caller, CI) for the call of caller i; when
\* the operand is no instruction no slice is built, and the record stands
\* for its absence
sliceOfCall(i, p) ==
  Only({IF isInstruction(p.insts[CI].ops[1])
        THEN ProgramSlice(i, p, p.insts[CI].ops[1][2], CI)
        ELSE [prog |-> i, parentFunction |-> p, insts |-> {}, depArgs |-> <<>>,
              initial |-> 0, BBs |-> {}, CallSite |-> CI, attractors |-> <<>>] :
          CI \in Val(CallSiteOf(p))})

\* the slice lazifyCallsite builds for the call of caller i and the thunk
\* bodies the outliner makes of it, computed once per caller, mode and order
SliceOf ==
  Tabulated([i \in ProgIds |-> sliceOfCall(i, Progs[i])])

\* the orders in which the blocks of slice s may be iterated
SliceOrders(s) == IF s.initial # 0 THEN BlockOrders(s.BBs) ELSE {<<>>}

outlinedFrom(s) ==
  [m \in BOOLEAN |-> [order \in SliceOrders(s) |->
     IF s.initial # 0 /\ canOutline(s)
     THEN IF m THEN memoizedOutline(s, order) ELSE outline(s, order)
     ELSE NoFunction]]

Outlined ==
  Tabulated([i \in ProgIds |-> outlinedFrom(SliceOf[i])])

\* lazifyCallsite counting the call site before the argument and the slice
\* are examined, and rejecting it
lazifyCallsiteCountsRejected(S, i, index, memo, order) ==
  [S EXCEPT !.ret = FALSE, !.stats.NumCallsitesLazified = @ + 1]

\* lazifyCallsite(CI, index, M), CI the call of caller i.  S holds the module,
\* the statistics and lazifiedFunctions; ret is the value returned.
lazifyCallsite(S, i, index, memo, order) ==
  LET lazyfiableArg == S.mod.site[i].args[index]
      emplaced == <<Callers[i].name, lazyfiableArg>> \notin S.lazified
  IN IF ~isInstruction(lazyfiableArg) THEN [S EXCEPT !.ret = FALSE]
     ELSE Only({
       IF ~canOutline(slice) \/ ~verify(slice) THEN [S EXCEPT !.ret = FALSE]
       ELSE Only({
         [ret |-> TRUE,
          mod |-> [site |-> [S.mod.site EXCEPT ![i] =
                               [called |-> cloneFn(i),
                                args |-> [@.args EXCEPT ![index] =
                                            IF memo THEN thunkAlloca ELSE thunkFn(i)],
                                pre |-> IF memo THEN thunkRecordSetup(i) ELSE <<>>]],
                   thunks |-> [S.mod.thunks EXCEPT ![i] = thunkFunction],
                   clones |-> [S.mod.clones EXCEPT ![i] =
                                 cloneCalleeFunction(getCalledFunction(S.mod, i),
                                                     index, memo)]],
          stats |-> countSlice(
                      [S.stats EXCEPT
                         !.NumCallsitesLazified = @ + 1,
                         !.NumFunctionsLazified = IF emplaced THEN @ + 1 ELSE @],
                      getNumberOfInsts(thunkFunction)),
          lazified |-> S.lazified \cup {<<Callers[i].name, lazyfiableArg>>}] :
           thunkFunction \in Val(Outlined[i][memo][order])}) :
         slice \in Val(SliceOf[i])})

\* the number of fields of the thunk record type built for slice s
thunkStructSize(s, memo) == (IF memo THEN 3 ELSE 1) + Len(s.depArgs)

(***************************************************************************)
(* Execution of the rewritten call.  The thunk record, when one is         *)
(* allocated, lies at address 0 of stack, field f at address f; a gep with *)
(* the single index k addresses the k-th record after it.                  *)
(***************************************************************************)
gepAddress(base, idx, size) ==
  base + idx[1] * size + (IF Len(idx) > 1 THEN idx[2] ELSE 0)

\* the instructions inserted before the call, run on stack; env maps their
\* ids to the values they produced
RECURSIVE execSetup(_, _, _, _)
execSetup(is, env, stack, size) ==
  IF is = <<>> THEN stack
  ELSE LET I == Head(is)
           ev(v) == IF v \in DOMAIN env THEN env[v]
                    ELSE IF v[1] = "c" THEN V(v[2]) ELSE v
           val == CASE I.k = "alloca" -> <<"p", 0>>
                    [] I.k = "gep" -> <<"p", gepAddress(ev(I.ops[1])[2], I.fld, size)>>
                    [] OTHER -> V(0)
           stack1 == IF I.k = "store" /\ ev(I.ops[2])[2] \in DOMAIN stack
                     THEN [stack EXCEPT ![ev(I.ops[2])[2]] = ev(I.ops[1])]
                     ELSE stack
       IN execSetup(Tail(is), (I.id :> val) @@ env, stack1, size)

\* the forcing calls of a clone, in program order
forcingCalls(clone) ==
  SelectIdx(clone.insts, LAMBDA I : I.k = "call" /\ I.id[1] \in {"tc", "fc"})

(***************************************************************************)
(* State.                                                                  *)
(***************************************************************************)
VARIABLES
  cands,              \* FLA.getLazyfiableCallSites(): callers, in iteration order
  paths,              \* FLA.getLazyfiablePaths(): the callees whose argument is lazyfiable
  WyvernLazificationMemoization,  \* the option -wylazy-memo
  M,                  \* the module
  statistics,         \* the five statistics
  lazifiedFunctions,  \* the pass's set of {caller, argument} pairs
  nextCand,           \* position of runOnModule's loop in cands
  changed,            \* runOnModule's local
  log,                \* what each iteration so far did
  done,               \* runOnModule has returned `changed`
  rt,                 \* the execution of one rewritten call
  an                  \* the construction and validation of one slice

vars ==
  <<cands, paths, WyvernLazificationMemoization, M, statistics, lazifiedFunctions,
    nextCand, changed, log, done, rt, an>>

\* no slice is under construction
IdleAn ==
  [pc |-> "idle", p |-> <<>>, initial |-> 0, CallSite |-> 0, st |-> <<>>,
   s |-> <<>>, ok |-> FALSE]

IdleRt ==
  [phase |-> "idle", i |-> 0, args |-> <<>>, stack |-> <<>>, hasRec |-> FALSE,
   results |-> <<>>, slow |-> 0, forces |-> 0]

RECURSIVE DistinctSeqs(_, _)
\* the sequences of at most n distinct elements of S
DistinctSeqs(S, n) ==
  IF n = 0 THEN {<<>>}
  ELSE {<<>>} \cup UNION {{<<x>> \o t : t \in DistinctSeqs(S \ {x}, n - 1)} : x \in S}

\* runOnModule up to its loop
Init ==
  /\ cands \in DistinctSeqs(ProgIds, MaxCands) \ {<<>>}
  /\ paths \in SUBSET {"g1", "g2", "straight"}
  /\ WyvernLazificationMemoization \in BOOLEAN
  /\ M = InputModule
  /\ statistics = [NoStats EXCEPT !.SmallestSliceSize = UIntMax]
  /\ lazifiedFunctions = {}
  /\ nextCand = 1
  /\ changed = FALSE
  /\ log = <<>>
  /\ done = FALSE
  /\ rt = IdleRt
  /\ an = IdleAn

\* the filter with every candidate let through
inAnyPath(mod, i) == TRUE

\* FLA.getLazyfiablePaths().count({callee, argIdx}) > 0 for candidate i
inLazyfiablePaths(mod, i) == mod.site[i].called[2] \in paths

\* one iteration of runOnModule's loop
Iterate ==
  /\ ~done
  /\ nextCand <= Len(cands)
  /\ IF inLazyfiablePaths(M, cands[nextCand])
     THEN \E order \in SliceOrders(SliceOf[cands[nextCand]]) :
          \E R \in {lazifyCallsite([ret |-> FALSE, mod |-> M, stats |-> statistics,
                                    lazified |-> lazifiedFunctions],
                                   cands[nextCand], 1,
                                   WyvernLazificationMemoization, order)} :
            /\ changed' = R.ret
            /\ M' = R.mod
            /\ statistics' = R.stats
            /\ lazifiedFunctions' = R.lazified
            /\ log' = Append(log, IF R.ret THEN "lazified" ELSE "failed")
     ELSE /\ UNCHANGED <<changed, M, statistics, lazifiedFunctions>>
          /\ log' = Append(log, "filtered")
  /\ nextCand' = nextCand + 1
  /\ UNCHANGED <<cands, paths, WyvernLazificationMemoization, done, rt, an>>

\* the end of runOnModule
Finish ==
  /\ ~done
  /\ nextCand > Len(cands)
  /\ statistics' = [statistics EXCEPT !.SmallestSliceSize = IF @ = UIntMax THEN 0 ELSE @]
  /\ done' = TRUE
  /\ UNCHANGED <<cands, paths, WyvernLazificationMemoization, M, lazifiedFunctions,
               nextCand, changed, log, rt, an>>

Next == Iterate \/ Finish

Spec == Init /\ [][Next]_vars

(***************************************************************************)
(* The transformed program runs: a rewritten call is issued, the clone     *)
(* executes its forcing calls one after the other and returns.             *)
(***************************************************************************)
ArgVals(p) == [1..p.na -> Vals]

\* the record memory a fresh frame holds: every cell an arbitrary value
freshStack(size, gv, gf, ga) ==
  [a \in 0..(2 * size) |-> IF a = 1 THEN V(gv) ELSE IF a = 2 THEN V(gf) ELSE V(ga)]

\* the caller of site i runs up to its call and issues it
IssueCall ==
  /\ done
  /\ rt.phase = "idle"
  /\ \E i \in Range(cands) :
       /\ M.site[i].called = cloneFn(i)
       /\ \E s \in {SliceOf[i]} :
          \E args \in ArgVals(s.parentFunction) :
            /\ Exec(progAsF(s.parentFunction), args, <<>>, FALSE,
                    <<"i", s.CallSite>>).status = "stop"
            /\ \E gv \in Vals, gf \in {0, 1}, ga \in Vals :
               \E size \in {thunkStructSize(s, WyvernLazificationMemoization)} :
                 rt' = [phase |-> "called", i |-> i, args |-> args,
                        stack |-> IF M.site[i].pre # <<>>
                                  THEN execSetup(M.site[i].pre, <<>>,
                                                 freshStack(size, gv, gf, ga), size)
                                  ELSE <<>>,
                        hasRec |-> M.site[i].pre # <<>>,
                        results |-> <<>>, slow |-> 0, forces |-> 0]
  /\ UNCHANGED <<cands, paths, WyvernLazificationMemoization, M, statistics,
               lazifiedFunctions, nextCand, changed, log, done, an>>

\* the value the clone calls at forcing call `call`: the parameter itself, or
\* what the load before the call read from the record
calledValue(call, actual, stack, hasRec) ==
  IF call.ops[1] = vA(1) THEN actual
  ELSE IF hasRec /\ actual = thunkAlloca THEN stack[0] ELSE UB

\* the clone executes its next forcing call
Force ==
  /\ rt.phase = "called"
  /\ \E clone \in {M.clones[rt.i]} :
     \E fcs \in {forcingCalls(clone)} :
       /\ rt.forces < Len(fcs)
       /\ rt.forces < MaxForces
       /\ \E call \in {clone.insts[fcs[rt.forces + 1]]} :
          \E called \in {calledValue(call, M.site[rt.i].args[1], rt.stack, rt.hasRec)} :
            IF called[1] = "thunk" /\ ~M.thunks[called[2]].ub
            THEN \E r \in {Exec(M.thunks[called[2]], <<>>, rt.stack,
                                Len(call.ops) > 1 /\ rt.hasRec, <<"none", 0>>)} :
                   IF r.status = "ret"
                   THEN rt' = [rt EXCEPT !.results = Append(@, r.val),
                                         !.stack = r.mem,
                                         !.slow = @ + (IF r.slow THEN 1 ELSE 0),
                                         !.forces = @ + 1]
                   ELSE rt' = [rt EXCEPT !.phase = "crashed"]
            ELSE rt' = [rt EXCEPT !.phase = "crashed"]
  /\ UNCHANGED <<cands, paths, WyvernLazificationMemoization, M, statistics,
               lazifiedFunctions, nextCand, changed, log, done, an>>

\* the clone returns; the record dies with the caller's frame
CalleeReturn ==
  /\ rt.phase = "called"
  /\ \/ rt.forces = Len(forcingCalls(M.clones[rt.i]))
     \/ rt.forces = MaxForces
  /\ rt' = IdleRt
  /\ UNCHANGED <<cands, paths, WyvernLazificationMemoization, M, statistics,
               lazifiedFunctions, nextCand, changed, log, done, an>>

InitRun ==
  /\ Init
  /\ Len(cands) = 1
  /\ paths = {"g1", "g2", "straight"}

NextRun == Iterate \/ Finish \/ IssueCall \/ Force \/ CalleeReturn

SpecRun == InitRun /\ [][NextRun]_vars


(***************************************************************************)
(* One slice is constructed and validated: the constructor computes the    *)
(* gates, runs the work list one iteration at a time and builds the slice, *)
(* and canOutline judges it.                                               *)
(***************************************************************************)
\* the largest number of blocks of a generated caller
MaxBlocks == 3
\* the number of work-list iterations the model follows
MaxIters == 64

\* the call sits in a loop, and the value it is passed is computed in the
\* same block
PLoopCallSame ==
  [name |-> "loopsame", na |-> 2, nb |-> 3, cs |-> 3,
   insts |-> << Ins("br", 1, <<>>, <<2>>),
               Ins("add", 2, <<vA(1), vC(1)>>, <<>>),
               CallI(2, "g1", <<vI(2)>>),
               Ins("condbr", 2, <<vA(2)>>, <<2, 3>>),
               Ins("ret", 3, <<>>, <<>>) >>]

\* the call sits in a loop and the value it is passed in a loop nested in it
PLoopCallDeeper ==
  [name |-> "loopdeeper", na |-> 2, nb |-> 5, cs |-> 5,
   insts |-> << Ins("br", 1, <<>>, <<2>>),
               Ins("br", 2, <<>>, <<3>>),
               Ins("add", 3, <<vA(1), vC(1)>>, <<>>),
               Ins("condbr", 3, <<vA(2)>>, <<3, 4>>),
               CallI(4, "g1", <<vI(3)>>),
               Ins("condbr", 4, <<vA(2)>>, <<2, 5>>),
               Ins("ret", 5, <<>>, <<>>) >>]

\* a branch of the caller never returns: block 3 enters a loop that block 2
\* closes, and block 2 precedes block 3 in the function
PSpin ==
  [name |-> "spin", na |-> 2, nb |-> 4, cs |-> 5,
   insts |-> << Ins("add", 1, <<vA(1), vC(1)>>, <<>>),
               Ins("condbr", 1, <<vA(2)>>, <<3, 4>>),
               Ins("condbr", 2, <<vA(2)>>, <<2, 3>>),
               Ins("br", 3, <<>>, <<2>>),
               CallI(4, "g1", <<vI(1)>>),
               Ins("ret", 4, <<>>, <<>>) >>]

\* the terminator targets of one block of a caller of N blocks
GenTargets(N) ==
  {<<t>> : t \in 2..N} \cup {<<t, u>> : t \in 2..N, u \in 2..N}

\* the control-flow graphs of N blocks whose last block returns, whose every
\* block is reached from the entry and reaches the return
GenCFGs(N) ==
  {term \in [1..(N - 1) -> GenTargets(N)] :
     \E nxt \in {[b \in 1..N |-> IF b = N THEN {} ELSE Range(term[b])]} :
       /\ ReachAvoiding(nxt, {1}, {}) = 1..N
       /\ \A b \in 1..N : N \in ReachAvoiding(nxt, {b}, {})}

\* the instructions before the first of block b, the call being in block c
genBase(c, b) == 4 * (b - 1) + (IF b > c THEN 1 ELSE 0)

\* the predecessors of block b, one per edge
genPreds(term, b) ==
  Only({[j \in DOMAIN es |-> es[j] \div 4] :
          es \in Val(SetToSeq({x[1] * 4 + x[2] :
                                 x \in {y \in (DOMAIN term) \X (1..2) :
                                          /\ y[2] \in DOMAIN term[y[1]]
                                          /\ term[y[1]][y[2]] = b}}))})

\* the terminator of block b: the last block returns, a block with one
\* target branches to it, a block with two tests its third instruction
genTerm(term, c, sw, b) ==
  IF b > Len(term) THEN Ins("ret", b, <<>>, <<>>)
  ELSE IF Len(term[b]) = 1 THEN Ins("br", b, <<>>, term[b])
       ELSE Ins(IF sw THEN "switch" ELSE "condbr", b, <<vI(genBase(c, b) + 3)>>, term[b])

\* instruction n of the generated caller.  Each block computes three values
\* before its terminator: the value that reaches it (a PHI of its
\* predecessors' second values when it has several incoming edges, else the
\* second value of its predecessor, or the first parameter in the entry),
\* that value plus one, and the comparison its terminator tests.  Block c
\* calls g1 on instruction initial right before its terminator.
genInst(term, c, sw, initial, n) ==
  LET b == IF n <= 4 * c THEN ((n - 1) \div 4) + 1
           ELSE IF n = 4 * c + 1 THEN c ELSE ((n - 2) \div 4) + 1
      slot == IF n <= 4 * c THEN ((n - 1) % 4) + 1
              ELSE IF n = 4 * c + 1 THEN 5 ELSE ((n - 2) % 4) + 1
  IN CASE slot = 1 ->
            Only({IF Len(preds) >= 2
                  THEN Ins("phi", b, [j \in DOMAIN preds |-> vI(genBase(c, preds[j]) + 2)],
                           preds)
                  ELSE IF Len(preds) = 1
                       THEN Ins("add", b, <<vI(genBase(c, preds[1]) + 2), vC(0)>>, <<>>)
                       ELSE Ins("add", b, <<vA(1), vC(1)>>, <<>>) :
                    preds \in Val(genPreds(term, b))})
       [] slot = 2 -> Ins("add", b, <<vI(genBase(c, b) + 1), vC(1)>>, <<>>)
       [] slot = 3 -> Ins("lt", b, <<vI(genBase(c, b) + 2), vA(2)>>, <<>>)
       [] slot = 4 /\ b = c -> CallI(b, "g1", <<vI(initial)>>)
       [] OTHER -> genTerm(term, c, sw, b)

GenCaller(term, c, sw, initial) ==
  [name |-> "generated", na |-> 2, nb |-> Len(term) + 1, cs |-> 4 * c,
   insts |-> [n \in 1..(4 * (Len(term) + 1) + 1) |-> genInst(term, c, sw, initial, n)]]

\* the instructions of the generated caller that may be passed to the call of
\* block c: the values of the blocks that dominate c
genInitials(term, c) ==
  Only({{genBase(c, b) + k : b \in {x \in 1..(Len(term) + 1) : DTdominates(nxt, x, c)},
                             k \in 1..3} :
          nxt \in Val([b \in 1..(Len(term) + 1) |->
                         IF b > Len(term) THEN {} ELSE Range(term[b])])})

\* a caller, the call in it and the instruction the call is passed
SliceInput(F, Initial, CallSite) == [F |-> F, Initial |-> Initial, CallSite |-> CallSite]

\* the callers of the pass whose call is passed an instruction, and three more
WrittenInputs ==
  {SliceInput(F, F.insts[CallSiteOf(F)].ops[1][2], CallSiteOf(F)) :
     F \in {G \in Range(Callers) \cup {PLoopCallSame, PLoopCallDeeper, PSpin} :
              isInstruction(G.insts[CallSiteOf(G)].ops[1])}}

\* the constructor is entered
sliceStart(in) ==
  [IdleAn EXCEPT !.pc = "function", !.p = in.F, !.initial = in.Initial,
                 !.CallSite = in.CallSite]

InitSlice ==
  /\ cands = <<>>
  /\ paths = {}
  /\ WyvernLazificationMemoization = FALSE
  /\ M = InputModule
  /\ statistics = NoStats
  /\ lazifiedFunctions = {}
  /\ nextCand = 1
  /\ changed = FALSE
  /\ log = <<>>
  /\ done = TRUE
  /\ rt = IdleRt
  /\ \/ \E in \in WrittenInputs : an = sliceStart(in)
     \/ \E N \in 2..MaxBlocks : \E term \in GenCFGs(N) : \E c \in 1..N :
        \E initial \in genInitials(term, c) : \E sw \in BOOLEAN :
          an = sliceStart(SliceInput(GenCaller(term, c, sw, initial), initial, 4 * c))

passUnchanged ==
  UNCHANGED <<cands, paths, WyvernLazificationMemoization, M, statistics,
              lazifiedFunctions, nextCand, changed, log, done, rt>>

\* computeGates(F), with the dominator trees and the loop information
ComputeGates ==
  /\ an.pc = "function"
  /\ an' = [an EXCEPT !.pc = "gated", !.p = withAnalyses(an.p)]
  /\ passUnchanged

\* get_data_dependences_for up to its loop
StartSlicing ==
  /\ an.pc = "gated"
  /\ an' = [an EXCEPT !.pc = "slicing",
                      !.st = [deps |-> {vI(an.initial)}, BBs |-> {}, visited |-> {},
                              to_visit |-> <<vI(an.initial)>>, iters |-> 0]]
  /\ passUnchanged

\* one iteration of the work-list loop
DDStep ==
  /\ an.pc = "slicing"
  /\ an.st.to_visit # <<>>
  /\ an.st.iters < MaxIters
  /\ an' = [an EXCEPT !.st = ddStep(an.p, an.p.gates, an.st)]
  /\ passUnchanged

\* the work list is empty: the constructor fills the slice
Construct ==
  /\ an.pc = "slicing"
  /\ an.st.to_visit = <<>>
  /\ an' = [an EXCEPT !.pc = "constructed",
                      !.s = sliceFrom(0, an.p, an.initial, an.CallSite, an.st)]
  /\ passUnchanged

\* canOutline()
Validate ==
  /\ an.pc = "constructed"
  /\ an' = [an EXCEPT !.pc = "validated", !.ok = canOutline(an.s)]
  /\ passUnchanged

NextSlice == ComputeGates \/ StartSlicing \/ DDStep \/ Construct \/ Validate

SpecSlice == InitSlice /\ [][NextSlice]_vars

\* the loop of get_data_dependences_for runs on while the work list holds a
\* value, and the constructor goes on when the loop has ended
FairSpecSlice == SpecSlice /\ WF_vars(DDStep) /\ WF_vars(Construct)

(***************************************************************************)
(* Properties.                                                             *)
(***************************************************************************)
\* the sites the pass has rewritten
lazifiedSites == {i \in ProgIds : M.site[i].called = cloneFn(i)}

\* C1: when runOnModule returns false the module is the input module: no
\* candidate of the sequence was rewritten.
C1_UnchangedMeansIdentical ==
  (done /\ ~changed) => M = InputModule

\* C2: in memoized mode every forcing call on one thunk record returns the
\* value the first returned, and the body's computation past the prologue has
\* run at most once over the record's lifetime.
C2_MemoIdempotence ==
  WyvernLazificationMemoization =>
    /\ \A n \in DOMAIN rt.results : rt.results[n] = rt.results[1]
    /\ rt.slow <= 1

\* a record forced twice or more, the body having run once
C2_ForcedAgain ==
  /\ WyvernLazificationMemoization
  /\ Len(rt.results) >= 2
  /\ rt.slow = 1

\* the thunk record of slice s with every slot written: the thunk body in
\* field 0, in memoized mode the flag (field 2) clear, and each captured
\* parameter's value in its slot
writtenRecord(s, memo, args) ==
  [a \in 0..(thunkStructSize(s, memo) - 1) |->
     IF a = 0 THEN thunkFn(s.prog)
     ELSE IF memo /\ a \in {1, 2} THEN V(0)
     ELSE V(args[s.depArgs[IF memo THEN a - 2 ELSE a]])]

\* C3: for every accepted candidate and every assignment of values to the
\* caller's parameters under which control reaches the call site, the thunk
\* body run from its entry on the captured values returns the value `initial`
\* holds in the caller at the call site.
C3_SemanticPreservation ==
  \A i \in lazifiedSites :
    \A s \in {SliceOf[i]} :
      \A args \in ArgVals(s.parentFunction) :
        \A orig \in {origValue(s.parentFunction, s.initial, s.CallSite, args)} :
          orig # UB =>
            /\ ~M.thunks[i].ub
            /\ \A r \in {Exec(M.thunks[i], <<>>,
                              writtenRecord(s, WyvernLazificationMemoization, args),
                              TRUE, <<"none", 0>>)} :
                 r.status = "ret" /\ r.val = orig

\* C4: an iteration whose candidate fails leaves the module, its call site
\* and the five statistics as they were, and the loop goes on to the next
\* candidate.
C4_FailedCandidateUntouched ==
  [][(log' # log /\ log'[Len(log')] = "failed") =>
       /\ M' = M
       /\ statistics' = statistics
       /\ lazifiedFunctions' = lazifiedFunctions
       /\ nextCand' = nextCand + 1
       /\ ~done']_vars

\* a candidate failed and the one after it was lazified
C4_LazifiedAfterFailure ==
  \E j \in DOMAIN log :
    j < Len(log) /\ log[j] = "failed" /\ log[j + 1] = "lazified"

\* C5: when the rewritten call of a lazified site is issued, field 0 of the
\* thunk record holds the thunk body, in memoized mode field 2 holds 0, and
\* every captured-argument slot holds the caller's parameter value.
C5_RecordMaterialized ==
  (rt.phase = "called" /\ rt.forces = 0) =>
    \A s \in {SliceOf[rt.i]} :
      /\ rt.hasRec
      /\ rt.stack[0] = thunkFn(rt.i)
      /\ (WyvernLazificationMemoization => rt.stack[2] = V(0))
      /\ \A n \in DOMAIN s.depArgs :
           rt.stack[n + (IF WyvernLazificationMemoization THEN 2 ELSE 0)]
             = V(rt.args[s.depArgs[n]])

\* C6: after a candidate is lazified, in either mode, the call targets the
\* cloned callee, its lazified operand is the thunk record's address, and
\* every forcing call of the clone passes the record pointer as the sole
\* argument of the thunk body.
C6_CallSwap ==
  \A i \in lazifiedSites :
    /\ M.site[i].called = cloneFn(i)
    /\ M.site[i].args[1] = thunkAlloca
    /\ \A n \in Range(forcingCalls(M.clones[i])) :
         Tail(M.clones[i].insts[n].ops) = <<vA(1)>>

\* C7: in the cloned callee, in either mode, no instruction cloned from the
\* callee still uses the lazified parameter: each such use is the result of
\* a forcing call placed before the instruction.
C7_ForcingRewrite ==
  \A i \in lazifiedSites :
    \A n \in DOMAIN M.clones[i].insts :
      \A I \in {M.clones[i].insts[n]} :
        I.id[1] = "n" =>
          \A o \in DOMAIN I.ops : I.ops[o] # vA(1)

\* C8: every thunk body the outliner returns has exactly one block without
\* predecessors, and that block is the entry block.
C8_SingleEntry ==
  \A i \in lazifiedSites :
    \A F \in {M.thunks[i]} :
      /\ ~F.ub
      /\ {B \in Range(F.blocks) : predsF(F, B) = {}} = {getEntryBlock(F)}

\* C9: every block of a thunk body the outliner returns has exactly one
\* terminator, its last instruction, and every successor a terminator names
\* is a block of the thunk body.
C9_TerminatorTotality ==
  \A i \in lazifiedSites :
    \A F \in {M.thunks[i]} :
      /\ ~F.ub
      /\ \A B \in Range(F.blocks) :
           /\ termIdx(F, B) # 0
           /\ \A j \in 1..(Len(F.body[B]) - 1) : ~isTerminator(F.body[B][j].k)
           /\ Range(succsF(F, B)) \subseteq Range(F.blocks)

\* C10: in every thunk body the outliner returns, the incoming blocks of
\* every PHI are exactly the predecessors of the PHI's block.
C10_PHIValidity ==
  \A i \in lazifiedSites :
    \A F \in {M.thunks[i]} :
      /\ ~F.ub
      /\ \A B \in Range(F.blocks) :
           \A j \in DOMAIN F.body[B] :
             F.body[B][j].k = "phi" => Range(F.body[B][j].tgt) = predsF(F, B)

\* the instructions of the thunk bodies the pass has created
thunkInsts ==
  UNION {UNION {Range(M.thunks[i].body[B]) : B \in Range(M.thunks[i].blocks)} :
           i \in lazifiedSites}

\* the addresses of the thunk record's fields computed in a thunk body
recordFieldAddrs == {I.id : I \in {J \in thunkInsts : J.k = "gep" /\ J.ops = <<thunkStructPtr>>}}

\* C11: every instruction of a thunk body the outliner produced, in either
\* mode, neither reads nor writes memory, does not throw and is guaranteed to
\* return.
C11_Purity ==
  \A I \in thunkInsts :
    ~mayReadOrWriteMemory(I) /\ ~mayThrow(I) /\ willReturn(I)

\* C11 as amended: no instruction of a thunk body throws or may fail to
\* return, the instructions cloned from the caller neither read nor write
\* memory, and the only memory accesses of the body are the loads of the
\* captured parameters and, in memoized mode, the loads and stores of the
\* value and flag fields, all of them through addresses of fields of the
\* thunk record.
C11_OnlyRecordAccesses ==
  \A I \in thunkInsts :
    /\ ~mayThrow(I) /\ willReturn(I)
    /\ mayReadOrWriteMemory(I) =>
         /\ I.id[1] \in {"al", "mvl", "mfl", "mst"}
         /\ I.ops[Len(I.ops)] \in recordFieldAddrs

\* a memoized thunk body that loads a captured parameter and stores the value
C11_BodyAccessesRecord ==
  /\ WyvernLazificationMemoization
  /\ \E I \in thunkInsts : I.k = "load" /\ I.id[1] = "al"
  /\ \E I \in thunkInsts : I.k = "store"

\* the state runOnModule starts from
passStart ==
  [ret |-> FALSE, mod |-> InputModule,
   stats |-> [NoStats EXCEPT !.SmallestSliceSize = UIntMax], lazified |-> {}]

RECURSIVE runFrom(_, _)
\* the results runOnModule can end with when, from S on, it processes the
\* candidates cs in this order: one result per iteration order of the slices'
\* block sets
runFrom(S, cs) ==
  IF cs = <<>>
  THEN {[S EXCEPT !.stats.SmallestSliceSize = IF @ = UIntMax THEN 0 ELSE @]}
  ELSE UNION {runFrom(S1, Tail(cs)) :
                S1 \in IF inLazyfiablePaths(S.mod, Head(cs))
                       THEN {lazifyCallsite(S, Head(cs), 1,
                                            WyvernLazificationMemoization, order) :
                               order \in SliceOrders(SliceOf[Head(cs)])}
                       ELSE {S}}

\* the orders in which the candidates cs can be processed
processingOrders(cs) == {q \in DistinctSeqs(Range(cs), Len(cs)) : Len(q) = Len(cs)}

\* C12: the module and the statistics the pass ends with are those it ends
\* with when it processes the same candidates in any other order, also when
\* the callee of one candidate is the caller of another.
C12_OrderIndependent ==
  done =>
    \A q \in processingOrders(cands) :
      \E R \in runFrom(passStart, q) : R.mod = M /\ R.stats = statistics


\* the loop depth of the block holding the call of the slice under validation
callDepth == an.p.LoopDepth[an.p.insts[an.CallSite].b]

\* C13: when the block of the call site has loop depth d > 0, canOutline
\* accepts the slice only if every block of the slice has a loop depth
\* greater than d: a slice with a block at depth d or less is refused
C13_LoopConstraint ==
  (an.pc = "validated" /\ callDepth > 0) =>
    (an.ok => \A BB \in an.s.BBs : an.p.LoopDepth[BB] > callDepth)

\* a slice is accepted for a call in a loop, its blocks being nested deeper
C13_AcceptedInLoop ==
  /\ an.pc = "validated"
  /\ callDepth > 0
  /\ an.ok
  /\ an.s.BBs # {}

\* a slice is refused for its loop depth alone
C13_RefusedForDepth ==
  /\ an.pc = "validated"
  /\ callDepth > 0
  /\ ~an.ok
  /\ canOutlineSameDepth(an.s)

\* the sizes, in instructions, of the thunks made for the rewritten candidates
RECURSIVE sumOfSizes(_)
sumOfSizes(S) ==
  IF S = {} THEN 0
  ELSE LET i == CHOOSE x \in S : TRUE
       IN getNumberOfInsts(M.thunks[i]) + sumOfSizes(S \ {i})

sliceSizes == {getNumberOfInsts(M.thunks[i]) : i \in lazifiedSites}

\* C14: when the pass has returned, NumCallsitesLazified is the number of
\* candidates rewritten, NumFunctionsLazified the number of distinct pairs of
\* caller and passed instruction among them, TotalSliceSize the sum of the
\* sizes of their thunks, LargestSliceSize the largest and SmallestSliceSize
\* the smallest of these sizes, and SmallestSliceSize is 0 when no candidate
\* was rewritten
C14_StatisticsAccuracy ==
  done =>
    /\ statistics.NumCallsitesLazified = Cardinality(lazifiedSites)
    /\ statistics.NumFunctionsLazified =
         Cardinality({<<Callers[i].name, InputModule.site[i].args[1]>> : i \in lazifiedSites})
    /\ statistics.TotalSliceSize = sumOfSizes(lazifiedSites)
    /\ lazifiedSites # {} =>
         /\ statistics.LargestSliceSize \in sliceSizes
         /\ \A n \in sliceSizes : n <= statistics.LargestSliceSize
         /\ statistics.SmallestSliceSize \in sliceSizes
         /\ \A n \in sliceSizes : n >= statistics.SmallestSliceSize
    /\ lazifiedSites = {} => statistics.SmallestSliceSize = 0

\* two calls of one caller that are passed the same instruction were both
\* rewritten
C14_SamePairTwice ==
  /\ done
  /\ Cardinality(lazifiedSites) = 2
  /\ statistics.NumFunctionsLazified = 1

\* two candidates with thunks of different sizes were rewritten, the larger
\* first
C14_SmallerAfterLarger ==
  /\ done
  /\ Len(cands) = 2
  /\ Range(cands) = lazifiedSites
  /\ getNumberOfInsts(M.thunks[cands[1]]) > getNumberOfInsts(M.thunks[cands[2]])

\* the candidates processed so far whose callee is not among the lazyfiable
\* paths
filteredSites ==
  {cands[k] : k \in {j \in 1..(nextCand - 1) : InputModule.site[cands[j]].called[2] \notin paths}}

\* C15: a candidate whose callee and argument index are not among the
\* lazyfiable paths is not handed to lazifyCallsite: the iteration that
\* meets it changes neither the module nor the statistics, and at any time
\* its call has the target and the operands of the input and no thunk and no
\* clone was made for it
C15_PredicateSetFilter ==
  /\ [](\A i \in filteredSites :
          /\ M.site[i] = InputModule.site[i]
          /\ M.thunks[i] = NoFunction
          /\ M.clones[i] = NoClone)
  /\ [][(/\ ~done
         /\ nextCand <= Len(cands)
         /\ InputModule.site[cands[nextCand]].called[2] \notin paths)
        => (M' = M /\ statistics' = statistics /\ lazifiedFunctions' = lazifiedFunctions)]_vars

\* a candidate was filtered after another was rewritten
C15_FilteredAfterLazified ==
  /\ done
  /\ log = <<"lazified", "filtered">>
  /\ filteredSites # {}

\* the instructions of the callee of candidate i, as the input holds it, that
\* use its first parameter
paramUsers(i) ==
  Only({{j \in DOMAIN Callee.insts : vA(1) \in Range(Callee.insts[j].ops)} :
          Callee \in Val(getCalledFunction(InputModule, i))})

\* C16: without memoization, the clone made for a rewritten candidate holds
\* as many forcing calls as the callee has instructions using the
\* parameter; each such instruction is preceded immediately by a forcing
\* call, and every operand of it that was the parameter is that call
C16_OneCallPerUser ==
  ~WyvernLazificationMemoization =>
    \A i \in lazifiedSites :
      \E clone \in {M.clones[i]} : \E users \in {paramUsers(i)} :
      \E Callee \in {getCalledFunction(InputModule, i)} :
        /\ Len(forcingCalls(clone)) = Cardinality(users)
        /\ \A j \in users :
             \E q \in DOMAIN clone.insts :
               /\ clone.insts[q].id = <<"n", j>>
               /\ q > 1
               /\ q - 1 \in Range(forcingCalls(clone))
               /\ \A o \in DOMAIN Callee.insts[j].ops :
                    Callee.insts[j].ops[o] = vA(1) =>
                      clone.insts[q].ops[o] = clone.insts[q - 1].id

\* without memoization a callee was cloned one of whose instructions uses
\* the parameter twice
C16_UserWithTwoUses ==
  /\ ~WyvernLazificationMemoization
  /\ \E i \in lazifiedSites : \E j \in paramUsers(i) :
       \E Callee \in {getCalledFunction(InputModule, i)} :
         Cardinality({o \in DOMAIN Callee.insts[j].ops : Callee.insts[j].ops[o] = vA(1)}) = 2

\* the constructor has filled the slice
sliceBuilt == an.pc \in {"constructed", "validated"}

\* C17: the slice built from initial holds initial; with an instruction it
\* holds every operand of it that is an instruction, and the block of that
\* operand; every operand that is a parameter of the caller is among the
\* slice's arguments; with a PHI it holds every incoming block of the PHI and
\* every gate of the PHI's block
C17_SliceClosure ==
  sliceBuilt =>
    /\ an.initial \in an.s.insts
    /\ \A n \in an.s.insts :
         \A U \in Range(an.p.insts[n].ops) :
           /\ isInstruction(U) => (U[2] \in an.s.insts /\ an.p.insts[U[2]].b \in an.s.BBs)
           /\ isArgument(U) => U[2] \in Range(an.s.depArgs)
    /\ \A n \in {x \in an.s.insts : an.p.insts[x].k = "phi"} :
         /\ Range(an.p.insts[n].tgt) \subseteq an.s.BBs
         /\ \A gate \in Range(an.p.gates[an.p.insts[n].b]) :
              isInstruction(gate) /\ gate[2] \in an.s.insts

\* a slice was built that holds a PHI whose block has gates, and that
\* depends on a parameter
C17_GatedPhiInSlice ==
  /\ sliceBuilt
  /\ an.s.depArgs # <<>>
  /\ \E n \in an.s.insts :
       /\ an.p.insts[n].k = "phi"
       /\ an.p.gates[an.p.insts[n].b] # <<>>
       /\ n # an.initial

\* the strict post-dominators of block B that are blocks of the slice
slicePDoms(B) == {a \in StrictPDoms(an.p, B) : a \in an.s.BBs}

\* C18: a block of the slice is its own attractor; the attractor of any
\* other block is the strict post-dominator of it in the slice that all the
\* others post-dominate, and the block has none exactly when no strict
\* post-dominator of it is in the slice
C18_Attractors ==
  sliceBuilt =>
    \A B \in Blocks(an.p) :
      /\ B \in an.s.BBs => an.s.attractors[B] = B
      /\ B \notin an.s.BBs =>
           /\ an.s.attractors[B] = 0 <=> slicePDoms(B) = {}
           /\ an.s.attractors[B] # 0 =>
                /\ an.s.attractors[B] \in slicePDoms(B)
                /\ \A c \in slicePDoms(B) : PDom(an.p, c, an.s.attractors[B])

\* a slice was built for which some block outside it has an attractor that
\* is not its immediate post-dominator, and some block has none
C18_DistantAttractor ==
  /\ sliceBuilt
  /\ \E B \in Blocks(an.p) \ an.s.BBs :
       an.s.attractors[B] \notin {0, IPDom(an.p, B)}
  /\ \E B \in Blocks(an.p) : an.s.attractors[B] = 0

\* computeGates has run
gatesComputed == an.pc \notin {"idle", "function"}

\* C19: every gate computeGates records is the terminator of a block with at
\* least two successors, a conditional branch or a switch, so that the
\* assertion of getGate holds; and a block with a single incoming edge has
\* no gate
C19_GatesDecide ==
  gatesComputed =>
    \A BB \in Blocks(an.p) :
      /\ \A gate \in Range(an.p.gates[BB]) :
           /\ isInstruction(gate)
           /\ an.p.insts[gate[2]].k \in {"condbr", "switch"}
           /\ Len(an.p.insts[gate[2]].tgt) >= 2
      /\ Cardinality(PredEdges(an.p, BB)) = 1 => an.p.gates[BB] = <<>>

\* C20: the work list of get_data_dependences_for becomes empty: a
\* traversal that has started is followed by the construction of the slice,
\* whatever cycles the operands of the caller's PHIs form and whatever gates
\* their blocks have
C20_TraversalTerminates == (an.pc = "slicing") ~> (an.pc = "constructed")

\* a traversal has ended in which a value was taken from the work list more
\* than once and the gates of a PHI's block were followed
C20_CycleDrained ==
  /\ an.pc = "constructed"
  /\ an.st.to_visit = <<>>
  /\ an.st.iters > Cardinality(an.st.deps)
  /\ \E n \in an.s.insts :
       /\ an.p.insts[n].k = "phi"
       /\ an.p.gates[an.p.insts[n].b] # <<>>
       /\ \E U \in Range(an.p.insts[n].ops) :
            isInstruction(U) /\ Dom(an.p, an.p.insts[n].b, an.p.insts[U[2]].b)

=============================================================================
